---- MODULE Spec2Model ----
(***************************************************************************)
(* Transfer pipeline of the Storagebot variants: the multipart upload to   *)
(* the object store (upload_multipart, upload_multipart_turbo,             *)
(* upload_multipart_with_progress) with its worker pool, per-part retries  *)
(* and failure cleanup.                                                    *)
(*                                                                         *)
(* Variants:  "ultra"    = deepseek_python_20250920_1eae16.py              *)
(*            "turbo"    = deepseek_python_20250920_c20274.py              *)
(*            "progress" = deepseek_python_20250920_ed84c8.py              *)
(* Sizes are byte counts, as in the source.                                *)
(*                                                                         *)
(* The specifications share the module, each leaving the others' state     *)
(* untouched:                                                              *)
(*   Spec         the multipart upload of the three variants above         *)
(*   SpecBasic    UploadProgress, upload_to_wasabi and file_handler of     *)
(*                deepseek_python_20250918_18894c.py                       *)
(*   SpecProgress the percentage computations as functions of their inputs *)
(*   SpecHandler  upload_file_handler next to its polling reporter         *)
(*   SpecRetry    the retry loop of one part upload, call by call          *)
(*   SpecCounter  the workers' additions to the shared progress counter    *)
(*   SpecDownload the download from Telegram that precedes the upload      *)
(*   SpecPool     the executor of one session, its work items counted      *)
(*   SpecUpdate   UploadProgress.update called from several threads        *)
(*   SpecLayout   the byte ranges the coordinator gives the parts          *)
(*   SpecRealtime upload_to_wasabi_with_progress and its part tasks        *)
(*   SpecStaging  handler runs staging files under the downloads directory *)
(*   SpecEntry    one transfer's entry in the progress dictionary          *)
(*   SpecRate     check_rate_limit and the timestamps it keeps per user    *)
(***************************************************************************)
EXTENDS Integers, Sequences, FiniteSets, Bags, TLC

\* ---------------------------------------------------------------- bounds
\* Failed upload_part calls the environment may inject into one session.
MaxFaults == 3
\* Pool threads the model lets run at once (the executor's own size is
\* max_workers below; the model explores min of the two).
MaxThreads == 2

\* ------------------------------------------------------------- constants
MiB == 1024 * 1024

\* the three bots whose multipart upload runs on a thread pool
Variants == {"ultra", "turbo", "progress"}

\* "realtime" is the second program of the 1eae16 file (upload_file_part,
\* upload_to_wasabi_with_progress), which has no thread pool and no retry loop

MAX_WORKERS(v) ==
  CASE v = "ultra" -> 10
    [] v = "turbo" -> 50
    [] v = "progress" -> 25

CHUNK_SIZE(v) ==
  CASE v = "ultra" -> 50 * MiB
    [] v = "turbo" -> 10 * MiB
    [] v = "progress" -> 20 * MiB
    [] v = "realtime" -> 8 * MiB

\* upload_file_to_wasabi takes the multipart path when file_size exceeds the
\* threshold; the turbo variant always takes it.
MULTIPART_THRESHOLD(v) ==
  CASE v = "ultra" -> 100 * MiB
    [] v = "turbo" -> 0
    [] v = "progress" -> 50 * MiB

max_retries_turbo == 2

\* mutant: every variant gives up after two attempts
max_retries_two(v) == max_retries_turbo

max_retries(v) ==
  CASE v = "ultra" -> 3
    [] v = "turbo" -> max_retries_turbo
    [] v = "progress" -> 3
    [] v = "realtime" -> 1

\* chunk_size of upload_part_with_progress: the part is sent in pieces.
SUB_CHUNK == 2 * MiB

Min(a, b) == IF a < b THEN a ELSE b
Max(a, b) == IF a > b THEN a ELSE b

\* math.ceil(a / b) for a >= 0, b > 0
CeilDiv(a, b) == (a + b - 1) \div b

\* File sizes offered to each variant: all above its multipart threshold.
FileSizes(v) ==
  CASE v = "ultra" -> {100 * MiB + 1, 150 * MiB, 150 * MiB + 1}
    [] v = "turbo" -> {1, 5 * MiB, 5 * MiB + 1, 12 * MiB}
    [] v = "progress" -> {50 * MiB + 1}
    [] v = "realtime" -> {16 * MiB, 20 * MiB + 1}

\* Part numbers whose upload_part calls the environment may fail.  With many
\* parts the interior ones are alike (same size, same code path), so faults
\* go to the first part, one interior part and the last (short) part.
FaultTargets(n) == IF n > 4 THEN {1, 2, n} ELSE 1..n

\* ------------------------------------------------- part layout (pure)
part_size(v, fs) ==
  CASE v = "ultra" -> CHUNK_SIZE(v)
    [] v = "turbo" -> Max(5 * MiB, Min(CHUNK_SIZE(v), fs \div 50))
    [] v = "progress" -> Max(5 * MiB, Min(CHUNK_SIZE(v), fs \div 10000))
    [] v = "realtime" -> CHUNK_SIZE(v)

part_count(v, fs) == CeilDiv(fs, part_size(v, fs))

start_byte(v, fs, p) == (p - 1) * part_size(v, fs)
end_byte(v, fs, p) == Min(start_byte(v, fs, p) + part_size(v, fs), fs)

\* mutant: a thread for every part
max_workers_per_part(v, n) == n

\* ThreadPoolExecutor(max_workers=...) of the multipart function
max_workers(v, n) ==
  CASE v = "ultra" -> Min(n, MAX_WORKERS(v))
    [] v = "turbo" -> Min(n * 2, MAX_WORKERS(v))
    [] v = "progress" -> Min(n, MAX_WORKERS(v))

\* sink upload_part calls one successful attempt of part p makes
calls_per_attempt(v, fs, p) ==
  IF v = "progress"
    THEN CeilDiv(end_byte(v, fs, p) - start_byte(v, fs, p), SUB_CHUNK)
    ELSE 1

\* bytes reported by the first j pieces of a part of psize bytes
piece_bytes(psize, j) == Min(j * SUB_CHUNK, psize)

\* ------------------------------------------------------------- state
VARIABLES
  variant,      \* which source variant runs
  file_size,    \* size of the staged file
  pc,           \* position of the coordinating thread in the multipart function
  session,      \* the sink's multipart session: none / open / completed / aborted
  status,       \* per part number: state of its future
  attempts,     \* per part number: attempts of the retry loop made so far
  upload_part_calls, \* s3_client.upload_part invocations of the session
  parts,        \* the coordinator's parts list; its order before the sort is
                \* read by nothing, so it is kept as the bag of its entries
  final_parts,  \* the Parts argument of complete_multipart_upload
  complete_calls,
  abort_calls,
  raised,       \* exceptions propagated to the caller of the multipart function
  error,        \* the failure that sent the coordinator to its except clause
  abort_failed, \* abort_multipart_upload itself raised
  faults,       \* failed upload_part calls injected so far
  uploaded,     \* the progress byte counter of the transfer
  tracked       \* the transfer has an entry in the module-level progress dict

mvars == <<variant, file_size, pc, session, status, attempts, upload_part_calls,
           parts, final_parts, complete_calls, abort_calls, raised,
           error, abort_failed, faults, uploaded, tracked>>

\* State of the single-request uploader (UploadProgress, upload_to_wasabi and
\* file_handler of the first bot).
VARIABLES
  progress_tracker, \* the UploadProgress object handed to upload_fileobj
  wasabi_pc,        \* position of file_handler / upload_to_wasabi
  attempt,          \* loop variable of upload_to_wasabi
  retry_delay,      \* its current back-off, in seconds
  sent,             \* bytes the running upload_fileobj call has reported
  current_time,     \* time.time(), in seconds
  ticks,            \* seconds that have passed during transfers
  scheduled,        \* safe_update_message coroutines queued on the event loop
  status_msg,       \* the status message as the user sees it
  stored            \* the object exists in the bucket

bvars == <<progress_tracker, wasabi_pc, attempt, retry_delay, sent, current_time,
           ticks, scheduled, status_msg, stored>>

\* One call of a progress computation: its inputs and what it produced.
VARIABLES
  processed,        \* bytes done, as passed to the computation
  total,            \* total size, as passed to the computation
  since_last_update,\* seconds since the previous progress message
  outcome           \* what the call produced

qvars == <<processed, total, since_last_update, outcome>>

\* An upload handler of the multipart bots running next to its polling
\* progress reporter.  Times are in tenths of a second.
VARIABLES
  h_variant,        \* which bot's upload_file_handler runs
  h_size,           \* media.file_size
  now,              \* the clock
  handler_pc,       \* position of upload_file_handler
  handler_wake,     \* when its asyncio.sleep ends
  reporter_pc,      \* position of the reporter task
  reporter_wake,    \* when its asyncio.sleep ends
  reporter_started, \* when the reporter task was created
  entry,            \* the reporter's loop condition: the transfer's entry is in
                    \* the progress dict (status['running'] in the ultra bot)
  transferred,      \* bytes the transfer has reported to its callback
  reports,          \* reports made since the clock last advanced
  last_percentage,  \* the reporter's last_percentage, kept as the byte count
                    \* it was computed from (-1: the initial value -1)
  last_update,      \* the reporter's time of its last edit
  edits,            \* edits the reporter's loop has issued
  status_message    \* the status message as the user sees it

hvars == <<h_variant, h_size, now, handler_pc, handler_wake, reporter_pc,
           reporter_wake, reporter_started, entry, transferred, reports,
           last_percentage, last_update, edits, status_message>>

\* One call of a retried upload operation: the retry loop of upload_part,
\* upload_part_turbo, upload_part_with_progress or upload_to_wasabi.  Waits
\* are in tenths of a second.
VARIABLES
  operation,        \* which function is called
  op_file_size,     \* size of the file it uploads from
  part_number,      \* its part_number argument (0 for upload_to_wasabi)
  op_attempt,       \* the loop variable attempt
  op_piece,         \* upload_part calls the running attempt has completed
  op_pc,            \* try / sleep / returned / raised
  op_errors,        \* kinds of the errors its attempts have met, in order
  op_sleeps,        \* the waits it has made, in order
  op_calls,         \* its upload_part calls: PartNumber sent, ETag received (<<>>: it raised)
  op_result         \* what it returned

rvars == <<operation, op_file_size, part_number, op_attempt, op_piece, op_pc, op_errors,
           op_sleeps, op_calls, op_result>>

\* The worker threads of one multipart session updating the shared progress
\* counter, every read and every write of the counter being a step.
VARIABLES
  c_variant,        \* which bot's workers run
  c_file_size,      \* size of the file
  counter,          \* progress_tracker[id]["current"] / upload_progress[id]["uploaded"]
  workers,          \* per part number: where its worker stands
  rest_added        \* the workers not followed one by one have added their bytes

cvars == <<c_variant, c_file_size, counter, workers, rest_added>>

\* ---- the download from Telegram that precedes the upload
VARIABLES
  d_variant,        \* which bot's handler runs
  d_size,           \* media.file_size
  d_pc,             \* "downloading" | "returned" | "raised"
  download_calls,   \* whole-transfer download calls the handler has started
  downloaded,       \* bytes received by the running call
  d_file,           \* the (partial) file exists on disk
  d_entry,          \* the download's progress_tracker entry exists
  d_status          \* text of the status message

dvars == <<d_variant, d_size, d_pc, download_calls, downloaded, d_file, d_entry,
           d_status>>

\* ---- the executor of one multipart session, its work items counted
VARIABLES
  p_variant,        \* which bot's multipart function runs
  p_file_size,      \* file_size
  submitted,        \* work items handed to executor.submit so far
  in_flight,        \* work items a pool thread is running
  finished,         \* work items that have returned or raised
  cancelled,        \* work items cancelled while still queued
  item_raised,      \* some work item has raised
  pool_pc           \* "submit" | "collect" | "shutdown"

pvars == <<p_variant, p_file_size, submitted, in_flight, finished, cancelled,
           item_raised, pool_pc>>

\* ---- UploadProgress.update called from several transfer threads
VARIABLES
  u_tracker,        \* the UploadProgress instance
  u_time,           \* time.time()
  u_ticks,          \* seconds passed
  u_sent,           \* bytes the transfer has handed to update calls
  callers,          \* per transfer thread: where its update call stands
  lock_holder,      \* the thread inside "with self.lock", 0 for none
  schedule_times    \* current_time of the calls that scheduled an edit, in order

uvars == <<u_tracker, u_time, u_ticks, u_sent, callers, lock_holder, schedule_times>>

\* ---- the coordinator's for loop laying the parts over the file
VARIABLES
  l_operation,      \* the part function the coordinator dispatches to
  l_file_size,      \* file_size
  l_dispatched,     \* parts the for loop has dispatched so far
  ranges            \* per dispatched part: PartNumber, first byte, bytes read

lvars == <<l_operation, l_file_size, l_dispatched, ranges>>

\* ---- upload_to_wasabi_with_progress (1eae16) inside its handler
VARIABLES
  t_file_size,      \* os.path.getsize(file_path)
  t_pc,             \* "start" | "collect" | "complete" | "returned" | "raised"
  t_session,        \* "none" | "open" | "completed" | "aborted"
  tasks,            \* per part index: "pending" | "sent" | "returned" | "failed"
  t_status          \* text of the status message

tvars == <<t_file_size, t_pc, t_session, tasks, t_status>>

\* ---- handler runs that stage their files under the downloads directory
VARIABLES
  s_user,           \* per handler run: message.from_user.id
  s_name,           \* per handler run: the sanitized file name
  s_phase,          \* per handler run: "waiting" | "downloading" | "uploading" | "cleanup" | "done"
  disk              \* per path: the run whose bytes the file holds, 0: no file

svars == <<s_user, s_name, s_phase, disk>>

\* ---- one transfer's entry in the module-level progress dictionary
VARIABLES
  e_variant,        \* "turbo" (progress_tracker) | "progress" (upload_progress)
  in_dict,          \* the transfer's key is in the dictionary
  e_current,        \* parts whose bytes have been added to the entry
  coordinator_pc,   \* the multipart function on its executor thread
  e_failed,         \* the multipart function is on its way out with an exception
  part_pc,          \* per part: where its worker stands
  poller_pc,        \* update_progress_message on the event loop thread
  key_errors        \* who met a KeyError on the removed entry outside a try block

evars == <<e_variant, in_dict, e_current, coordinator_pc, e_failed, part_pc, poller_pc,
           key_errors>>

\* ---- the per-user request limiter
VARIABLES
  r_now,            \* what time.time() returns, in seconds
  user_limits,      \* user id -> list of the timestamps it keeps
  accepted,         \* history: user id -> timestamp -> calls that returned True
  r_result          \* user id -> what its latest call at r_now returned

avars == <<r_now, user_limits, accepted, r_result>>

outside_multipart == <<bvars, qvars, hvars, rvars, cvars, dvars, pvars, uvars, lvars, tvars, svars, evars, avars>>
outside_basic == <<mvars, qvars, hvars, rvars, cvars, dvars, pvars, uvars, lvars, tvars, svars, evars, avars>>
outside_progress == <<mvars, bvars, hvars, rvars, cvars, dvars, pvars, uvars, lvars, tvars, svars, evars, avars>>
outside_handler == <<mvars, bvars, qvars, rvars, cvars, dvars, pvars, uvars, lvars, tvars, svars, evars, avars>>
outside_retry == <<mvars, bvars, qvars, hvars, cvars, dvars, pvars, uvars, lvars, tvars, svars, evars, avars>>
outside_counter == <<mvars, bvars, qvars, hvars, rvars, dvars, pvars, uvars, lvars, tvars, svars, evars, avars>>
outside_download == <<mvars, bvars, qvars, hvars, rvars, cvars, pvars, uvars, lvars, tvars, svars, evars, avars>>
outside_pool == <<mvars, bvars, qvars, hvars, rvars, cvars, dvars, uvars, lvars, tvars, svars, evars, avars>>
outside_update == <<mvars, bvars, qvars, hvars, rvars, cvars, dvars, pvars, lvars, tvars, svars, evars, avars>>
outside_layout == <<mvars, bvars, qvars, hvars, rvars, cvars, dvars, pvars, uvars, tvars, svars, evars, avars>>
outside_realtime == <<mvars, bvars, qvars, hvars, rvars, cvars, dvars, pvars, uvars, lvars, svars, evars, avars>>
outside_staging == <<mvars, bvars, qvars, hvars, rvars, cvars, dvars, pvars, uvars, lvars, tvars, evars, avars>>
outside_entry == <<mvars, bvars, qvars, hvars, rvars, cvars, dvars, pvars, uvars, lvars, tvars, svars, avars>>
outside_rate == <<mvars, bvars, qvars, hvars, rvars, cvars, dvars, pvars, uvars, lvars, tvars, svars, evars>>

vars == <<mvars, bvars, qvars, hvars, rvars, cvars, dvars, pvars, uvars, lvars, tvars, svars, evars, avars>>

N == part_count(variant, file_size)
PartNumbers == 1..N

psize(p) == end_byte(variant, file_size, p) - start_byte(variant, file_size, p)

\* the tag the sink returns for piece k of attempt a of part number p
ETagOf(p, a, k) == <<p, a, k>>

\* the dict upload_part returns
PartResult(p, tag) == [PartNumber |-> p, ETag |-> tag]

\* mutant: the tag of the part's first response is kept across retries
returned_etag_first_attempt(v, fs, p, a) == ETagOf(p, 1, calls_per_attempt(v, fs, p))

\* the tag upload_part puts in its result: part['ETag'] of the call that
\* just returned (the last piece, for upload_part_with_progress)
returned_etag(v, fs, p, a) == ETagOf(p, a, calls_per_attempt(v, fs, p))

\* progress dict entry created by upload_file_to_wasabi before the executor runs
has_progress_entry(v) == v \in {"turbo", "progress"}

\* bytes a successful attempt adds to the counter
bytes_on_success(v, size) == IF v \in {"turbo", "progress"} THEN size ELSE 0

\* bytes an attempt that failed after j pieces has added to the counter
bytes_on_failure(v, size, j) == IF v = "progress" THEN piece_bytes(size, j) ELSE 0

\* executor.shutdown(wait=False, cancel_futures=True) on a failed future
cancels_pending(v) == v \in {"turbo", "progress"}

\* mutant: the except clause aborts whether or not a session id exists
abort_on_error_always(v, mpu_id_set) == TRUE

\* mutant: the except clause never aborts
abort_on_error_never(v, mpu_id_set) == FALSE

\* the except clause aborts only when a session id exists
abort_on_error(v, mpu_id_set) == mpu_id_set

\* what the propagated exception reports when abort_multipart_upload raised:
\* the turbo variant swallows the abort failure, the others let it replace e
error_after_abort_failure(v, e) == IF v = "turbo" THEN e ELSE "abort"

\* mutant: the sort runs with reverse=True
RECURSIVE SortByPartNumberReversed(_)
SortByPartNumberReversed(b) ==
  IF BagToSet(b) = {} THEN <<>>
  ELSE LET m == CHOOSE e \in BagToSet(b) :
                  \A f \in BagToSet(b) : e.PartNumber >= f.PartNumber
       IN <<m>> \o SortByPartNumberReversed(b (-) SetToBag({m}))

\* parts.sort(key=lambda x: x['PartNumber']): the entries of the list in
\* ascending PartNumber order
RECURSIVE SortByPartNumber(_)
SortByPartNumber(b) ==
  IF BagToSet(b) = {} THEN <<>>
  ELSE LET m == CHOOSE e \in BagToSet(b) :
                  \A f \in BagToSet(b) : e.PartNumber <= f.PartNumber
       IN <<m>> \o SortByPartNumber(b (-) SetToBag({m}))

\* what the exception that reaches the caller reports
reported_error ==
  IF abort_failed THEN error_after_abort_failure(variant, error) ELSE error

Running == {p \in PartNumbers : status[p] = "running"}
Queued == {p \in PartNumbers : status[p] = "queued"}

PoolThreads == Min(max_workers(variant, N), MaxThreads)

\* ------------------------------------------------------------- Init
\* The status message: what it shows, whether the user deleted it, how many
\* terminal notifications the handler has sent, and whether anything was
\* written to it after one.
NewStatusMsg(text) ==
  [text |-> text, deleted |-> FALSE, terminals |-> 0, edited_after_terminal |-> FALSE]

\* UploadProgress.__init__
UploadProgress(total_size) ==
  [total_size |-> total_size, uploaded |-> 0, last_update_time |-> 0,
   is_cancelled |-> FALSE, is_completed |-> FALSE]

\* No single-request upload is in progress.
BasicOff ==
  /\ progress_tracker = UploadProgress(0)
  /\ wasabi_pc = "off"
  /\ attempt = 0
  /\ retry_delay = 0
  /\ sent = 0
  /\ current_time = 0
  /\ ticks = 0
  /\ scheduled = 0
  /\ status_msg = NewStatusMsg("none")
  /\ stored = FALSE

\* No multipart upload is in progress.
MultipartOff ==
  /\ variant = "none"
  /\ file_size = 0
  /\ pc = "off"
  /\ session = "none"
  /\ status = <<>>
  /\ attempts = <<>>
  /\ upload_part_calls = 0
  /\ parts = EmptyBag
  /\ final_parts = <<>>
  /\ complete_calls = 0
  /\ abort_calls = 0
  /\ raised = 0
  /\ error = "none"
  /\ abort_failed = FALSE
  /\ faults = 0
  /\ uploaded = 0
  /\ tracked = FALSE

\* before the call
NotCalled == [called |-> FALSE, raised |-> "none", reported |-> FALSE, percentage |-> 0]

\* No progress computation is being examined.
ProgressOff ==
  /\ processed = 0
  /\ total = 0
  /\ since_last_update = 0
  /\ outcome = NotCalled

\* No handler of the multipart bots is running.
HandlerOff ==
  /\ h_variant = "none"
  /\ h_size = 0
  /\ now = 0
  /\ handler_pc = "off"
  /\ handler_wake = 0
  /\ reporter_pc = "off"
  /\ reporter_wake = 0
  /\ reporter_started = 0
  /\ entry = FALSE
  /\ transferred = 0
  /\ reports = 0
  /\ last_percentage = 0
  /\ last_update = 0
  /\ edits = 0
  /\ status_message = NewStatusMsg("none")

\* what a call has returned before it returns
NoResult == [PartNumber |-> 0, ETag |-> <<>>]

\* No retried operation is being examined.
RetryOff ==
  /\ operation = "none"
  /\ op_file_size = 0
  /\ part_number = 0
  /\ op_attempt = 0
  /\ op_piece = 0
  /\ op_pc = "off"
  /\ op_errors = <<>>
  /\ op_sleeps = <<>>
  /\ op_calls = <<>>
  /\ op_result = NoResult

\* No counter is being updated.
CounterOff ==
  /\ c_variant = "none"
  /\ c_file_size = 0
  /\ counter = 0
  /\ workers = <<>>
  /\ rest_added = FALSE

DownloadOff ==
  /\ d_variant = "none"
  /\ d_size = 0
  /\ d_pc = "off"
  /\ download_calls = 0
  /\ downloaded = 0
  /\ d_file = FALSE
  /\ d_entry = FALSE
  /\ d_status = "none"

PoolOff ==
  /\ p_variant = "none"
  /\ p_file_size = 0
  /\ submitted = 0
  /\ in_flight = 0
  /\ finished = 0
  /\ cancelled = 0
  /\ item_raised = FALSE
  /\ pool_pc = "off"

UpdateOff ==
  /\ u_tracker = UploadProgress(0)
  /\ u_time = 0
  /\ u_ticks = 0
  /\ u_sent = 0
  /\ callers = <<>>
  /\ lock_holder = 0
  /\ schedule_times = <<>>

LayoutOff ==
  /\ l_operation = "none"
  /\ l_file_size = 0
  /\ l_dispatched = 0
  /\ ranges = <<>>

RealtimeOff ==
  /\ t_file_size = 0
  /\ t_pc = "off"
  /\ t_session = "none"
  /\ tasks = <<>>
  /\ t_status = "none"

StagingOff ==
  /\ s_user = <<>>
  /\ s_name = <<>>
  /\ s_phase = <<>>
  /\ disk = <<>>

EntryOff ==
  /\ e_variant = "none"
  /\ in_dict = FALSE
  /\ e_current = 0
  /\ coordinator_pc = "off"
  /\ e_failed = FALSE
  /\ part_pc = <<>>
  /\ poller_pc = "off"
  /\ key_errors = {}

RateOff ==
  /\ r_now = 0
  /\ user_limits = <<>>
  /\ accepted = <<>>
  /\ r_result = <<>>

Init ==
  /\ RateOff
  /\ EntryOff
  /\ StagingOff
  /\ RealtimeOff
  /\ LayoutOff
  /\ UpdateOff
  /\ PoolOff
  /\ DownloadOff
  /\ CounterOff
  /\ RetryOff
  /\ BasicOff
  /\ ProgressOff
  /\ HandlerOff
  /\ variant \in Variants
  /\ file_size \in FileSizes(variant)
  /\ pc = "create"
  /\ session = "none"
  /\ status = [p \in PartNumbers |-> "new"]
  /\ attempts = [p \in PartNumbers |-> 0]
  /\ upload_part_calls = 0
  /\ parts = EmptyBag
  /\ final_parts = <<>>
  /\ complete_calls = 0
  /\ abort_calls = 0
  /\ raised = 0
  /\ error = "none"
  /\ abort_failed = FALSE
  /\ faults = 0
  /\ uploaded = 0
  /\ tracked = has_progress_entry(variant)

\* ------------------------------------------------- coordinator steps
\* create_multipart_upload succeeds; every part is submitted to the executor
CreateOk ==
  /\ pc = "create"
  /\ session' = "open"
  /\ status' = [p \in PartNumbers |-> "queued"]
  /\ pc' = "collect"
  /\ UNCHANGED outside_multipart
  /\ UNCHANGED <<abort_failed, variant, file_size, attempts, upload_part_calls, parts,
                 final_parts, complete_calls, abort_calls, raised, error, faults,
                 uploaded, tracked>>

\* create_multipart_upload raises
CreateFail ==
  /\ pc = "create"
  /\ error' = "create"
  /\ pc' = "except"
  /\ UNCHANGED outside_multipart
  /\ UNCHANGED <<abort_failed, variant, file_size, session, status, attempts, upload_part_calls, parts, final_parts, complete_calls, abort_calls,
                 raised, faults, uploaded, tracked>>

\* mutant: the except clause is entered without leaving the with-block
after_failed_future_except == "except"

\* where the coordinator goes when future.result() raised
after_failed_future == "join"

\* future.result() raises: pending futures are cancelled where the variant
\* does so, and the exception leaves the with-block
CollectFailed(p) ==
  /\ pc = "collect"
  /\ status[p] = "failed"
  /\ error' = "part"
  /\ status' = [q \in PartNumbers |->
                 IF q = p THEN "raised"
                 ELSE IF status[q] = "queued" /\ cancels_pending(variant)
                   THEN "cancelled" ELSE status[q]]
  /\ pc' = after_failed_future
  /\ UNCHANGED outside_multipart
  /\ UNCHANGED <<abort_failed, variant, file_size, session, attempts, upload_part_calls,
                 parts, final_parts, complete_calls, abort_calls, raised, faults,
                 uploaded, tracked>>

\* ThreadPoolExecutor.__exit__: shutdown(wait=True) returns once no work item
\* is queued or running
Join ==
  /\ pc = "join"
  /\ Running = {} /\ Queued = {}
  /\ pc' = "except"
  /\ UNCHANGED outside_multipart
  /\ UNCHANGED <<abort_failed, variant, file_size, session, status, attempts, upload_part_calls, parts, final_parts, complete_calls, abort_calls,
                 raised, error, faults, uploaded, tracked>>

AllCollected == \A p \in PartNumbers : status[p] = "collected"

\* as_completed yields futures in the order they finish: a result is appended
\* when its future finishes, unless the loop has been left or a future that
\* finished earlier has failed (its exception is what the loop meets first)
Collecting == pc = "collect" /\ \A q \in PartNumbers : status[q] # "failed"

\* parts.sort(...); complete_multipart_upload(...) returns
CompleteOk ==
  /\ pc = "collect" /\ AllCollected
  /\ final_parts' = SortByPartNumber(parts)
  /\ complete_calls' = complete_calls + 1
  /\ session' = "completed"
  /\ pc' = "done"
  /\ tracked' = FALSE
  /\ UNCHANGED outside_multipart
  /\ UNCHANGED <<abort_failed, variant, file_size, status, attempts, upload_part_calls,
                 parts, abort_calls, raised, error, faults, uploaded>>

\* parts.sort(...); complete_multipart_upload(...) raises
CompleteFail ==
  /\ pc = "collect" /\ AllCollected
  /\ final_parts' = SortByPartNumber(parts)
  /\ complete_calls' = complete_calls + 1
  /\ error' = "complete"
  /\ pc' = "except"
  /\ UNCHANGED outside_multipart
  /\ UNCHANGED <<abort_failed, variant, file_size, session, status, attempts, upload_part_calls, parts, abort_calls, raised, faults, uploaded, tracked>>

\* except clause, no session to abort: the exception is re-raised (wrapped)
ExceptNoAbort ==
  /\ pc = "except"
  /\ ~abort_on_error(variant, session # "none")
  /\ raised' = raised + 1
  /\ pc' = "done"
  /\ tracked' = FALSE
  /\ UNCHANGED outside_multipart
  /\ UNCHANGED <<abort_failed, variant, file_size, session, status, attempts, upload_part_calls, parts, final_parts, complete_calls, abort_calls,
                 error, faults, uploaded>>

\* except clause: abort_multipart_upload returns, the exception is re-raised
ExceptAbortOk ==
  /\ pc = "except"
  /\ abort_on_error(variant, session # "none")
  /\ abort_calls' = abort_calls + 1
  /\ session' = "aborted"
  /\ raised' = raised + 1
  /\ pc' = "done"
  /\ tracked' = FALSE
  /\ UNCHANGED outside_multipart
  /\ UNCHANGED <<abort_failed, variant, file_size, status, attempts, upload_part_calls,
                 parts, final_parts, complete_calls, error, faults, uploaded>>

\* except clause: abort_multipart_upload itself raises
ExceptAbortFail ==
  /\ pc = "except"
  /\ abort_on_error(variant, session # "none")
  /\ abort_calls' = abort_calls + 1
  /\ abort_failed' = TRUE
  /\ raised' = raised + 1
  /\ pc' = "done"
  /\ tracked' = FALSE
  /\ UNCHANGED outside_multipart
  /\ UNCHANGED <<error, variant, file_size, session, status, attempts, upload_part_calls, parts, final_parts, complete_calls, faults, uploaded>>

\* ------------------------------------------------------ worker steps
\* a pool thread takes the oldest queued work item
StartPart(p) ==
  /\ status[p] = "queued"
  /\ \A q \in Queued : p <= q
  /\ Cardinality(Running) < PoolThreads
  /\ status' = [status EXCEPT ![p] = "running"]
  /\ UNCHANGED outside_multipart
  /\ UNCHANGED <<abort_failed, variant, file_size, pc, session, attempts, upload_part_calls, parts, final_parts, complete_calls, abort_calls,
                 raised, error, faults, uploaded, tracked>>

\* one attempt of the retry loop succeeds and the worker returns its dict
AttemptOk(p) ==
  /\ status[p] = "running"
  /\ LET a == attempts[p] + 1
         tag == returned_etag(variant, file_size, p, a)
     IN /\ attempts' = [attempts EXCEPT ![p] = a]
        /\ upload_part_calls' =
             upload_part_calls + calls_per_attempt(variant, file_size, p)
        /\ parts' = IF Collecting THEN parts (+) SetToBag({PartResult(p, tag)})
                     ELSE parts
  /\ uploaded' = IF tracked THEN uploaded + bytes_on_success(variant, psize(p))
                 ELSE uploaded
  /\ status' = [status EXCEPT ![p] = IF Collecting THEN "collected" ELSE "done"]
  /\ UNCHANGED outside_multipart
  /\ UNCHANGED <<abort_failed, variant, file_size, pc, session, final_parts,
                 complete_calls, abort_calls, raised, error, faults, tracked>>

\* one attempt fails in its (j+1)-th upload_part call; the loop sleeps and
\* retries, or re-raises on the last attempt
AttemptFail(p, j) ==
  /\ status[p] = "running"
  /\ faults < MaxFaults
  /\ p \in FaultTargets(N)
  /\ j \in 0..(calls_per_attempt(variant, file_size, p) - 1)
  /\ faults' = faults + 1
  /\ LET a == attempts[p] + 1
     IN /\ attempts' = [attempts EXCEPT ![p] = a]
        /\ upload_part_calls' = upload_part_calls + j + 1
        /\ status' = [status EXCEPT
                        ![p] = IF a = max_retries(variant) THEN "failed" ELSE "running"]
  /\ uploaded' = IF tracked THEN uploaded + bytes_on_failure(variant, psize(p), j)
                 ELSE uploaded
  /\ UNCHANGED outside_multipart
  /\ UNCHANGED <<abort_failed, variant, file_size, pc, session, parts, final_parts,
                 complete_calls, abort_calls, raised, error, tracked>>

Next ==
  \/ CreateOk
  \/ CreateFail
  \/ \E p \in PartNumbers : CollectFailed(p)
  \/ Join
  \/ CompleteOk
  \/ CompleteFail
  \/ ExceptNoAbort
  \/ ExceptAbortOk
  \/ ExceptAbortFail
  \/ \E p \in PartNumbers : StartPart(p)
  \/ \E p \in PartNumbers : AttemptOk(p)
  \/ \E p \in PartNumbers : \E j \in 0..2 : AttemptFail(p, j)

Spec == Init /\ [][Next]_vars

\* ===================================================================
\* The single-request uploader: UploadProgress, upload_to_wasabi and the part
\* of file_handler that follows the download.  upload_fileobj is called on
\* the event-loop thread, so the loop is blocked for the length of every
\* attempt; its transfer threads call UploadProgress.update.
\* ===================================================================

MaxTicks == 3

\* sizes of the staged file (media.file_size)
BasicSizes == {0, 1000, 16 * 1024, 20 * 1024}

\* bytes the transfer reports per callback
CallbackBlock == 8 * 1024

\* time.time() when the handler starts
StartTimes == {1000}

upload_max_retries == 3
initial_retry_delay == 5

Abs(x) == IF x < 0 THEN 0 - x ELSE x

\* UploadProgress.update: the tracker after one call.  A call that gets past
\* the throttle stores the time and schedules one safe_update_message.
update(t, bytes_amount, time) ==
  IF t.is_cancelled \/ t.is_completed THEN t
  ELSE LET u == t.uploaded + bytes_amount IN
       IF Abs(u - t.total_size) < 1024
         THEN [t EXCEPT !.uploaded = u, !.is_completed = TRUE]
       ELSE IF time - t.last_update_time < 2
         THEN [t EXCEPT !.uploaded = u]
         ELSE [t EXCEPT !.uploaded = u, !.last_update_time = time]

\* the notifications that end a handler run
TerminalTexts == {"success", "error"}

\* status_msg.edit_text(text) on a message that still exists
edit_text(msg, text) ==
  [msg EXCEPT !.text = text,
              !.terminals = @ + (IF text \in TerminalTexts THEN 1 ELSE 0),
              !.edited_after_terminal = @ \/ msg.terminals > 0]

\* message.reply_text(error_msg): a new message carries the notification
reply_text(msg, text) == [msg EXCEPT !.terminals = @ + 1]

\* the except clause of file_handler: edit the status message, reply if the
\* edit raises
report_error(msg) ==
  IF msg.deleted THEN reply_text(msg, "error") ELSE edit_text(msg, "error")

\* an edit inside try/except-pass
try_edit_text(msg, text) == IF msg.deleted THEN msg ELSE edit_text(msg, text)

LoopFree == wasabi_pc \in {"final_wait", "retry_sleep", "done"}

InitBasic ==
  /\ RateOff
  /\ EntryOff
  /\ StagingOff
  /\ RealtimeOff
  /\ LayoutOff
  /\ UpdateOff
  /\ PoolOff
  /\ DownloadOff
  /\ MultipartOff
  /\ CounterOff
  /\ RetryOff
  /\ ProgressOff
  /\ HandlerOff
  /\ \E size \in BasicSizes : progress_tracker = UploadProgress(size)
  /\ wasabi_pc = "uploading"
  /\ attempt = 0
  /\ retry_delay = initial_retry_delay
  /\ sent = 0
  /\ current_time \in StartTimes
  /\ ticks = 0
  /\ scheduled = 0
  /\ status_msg = NewStatusMsg("starting upload")
  /\ stored = FALSE

\* a transfer thread reports the next block: Callback=progress_tracker.update
Callback ==
  /\ wasabi_pc = "uploading"
  /\ sent < progress_tracker.total_size
  /\ LET amount == Min(CallbackBlock, progress_tracker.total_size - sent)
         t == update(progress_tracker, amount, current_time)
     IN /\ sent' = sent + amount
        /\ progress_tracker' = t
        /\ scheduled' = scheduled +
             (IF t.last_update_time # progress_tracker.last_update_time THEN 1 ELSE 0)
  /\ UNCHANGED outside_basic
  /\ UNCHANGED <<wasabi_pc, attempt, retry_delay, current_time, ticks, status_msg, stored>>

\* upload_fileobj returns: the counter is forced to the total and the
\* "Upload Complete!" edit is issued inside try/except-pass
UploadOk ==
  /\ wasabi_pc = "uploading"
  /\ sent = progress_tracker.total_size
  /\ stored' = TRUE
  /\ progress_tracker' = [progress_tracker EXCEPT !.uploaded = progress_tracker.total_size]
  /\ status_msg' = try_edit_text(status_msg, "upload complete")
  /\ wasabi_pc' = "final_wait"
  /\ UNCHANGED outside_basic
  /\ UNCHANGED <<attempt, retry_delay, sent, current_time, ticks, scheduled>>

\* upload_fileobj raises on an attempt that is not the last: the retry notice
\* is edited in from inside the except clause, so a deleted message makes the
\* edit raise out of upload_to_wasabi into file_handler's except clause
UploadFailRetry ==
  /\ wasabi_pc = "uploading"
  /\ attempt < upload_max_retries - 1
  /\ IF status_msg.deleted
       THEN /\ status_msg' = report_error(status_msg)
            /\ wasabi_pc' = "done"
       ELSE /\ status_msg' = edit_text(status_msg, "retrying")
            /\ wasabi_pc' = "retry_sleep"
  /\ UNCHANGED outside_basic
  /\ UNCHANGED <<progress_tracker, attempt, retry_delay, sent, current_time, ticks,
                 scheduled, stored>>

\* asyncio.sleep(retry_delay) ends, the delay doubles, the next attempt starts
RetrySleep ==
  /\ wasabi_pc = "retry_sleep"
  /\ scheduled = 0
  /\ current_time' = current_time + retry_delay
  /\ retry_delay' = retry_delay * 2
  /\ attempt' = attempt + 1
  /\ sent' = 0
  /\ wasabi_pc' = "uploading"
  /\ UNCHANGED outside_basic
  /\ UNCHANGED <<progress_tracker, ticks, scheduled, status_msg, stored>>

\* upload_fileobj raises on the last attempt: upload_to_wasabi re-raises and
\* file_handler reports the error
UploadFailLast ==
  /\ wasabi_pc = "uploading"
  /\ attempt = upload_max_retries - 1
  /\ status_msg' = report_error(status_msg)
  /\ wasabi_pc' = "done"
  /\ UNCHANGED outside_basic
  /\ UNCHANGED <<progress_tracker, attempt, retry_delay, sent, current_time, ticks,
                 scheduled, stored>>

\* upload_to_wasabi returned True: file_handler edits in the success message;
\* when that edit raises, its except clause reports the error instead
HandlerSuccess ==
  /\ wasabi_pc = "final_wait"
  /\ scheduled = 0
  /\ status_msg' = IF status_msg.deleted THEN report_error(status_msg)
                   ELSE edit_text(status_msg, "success")
  /\ wasabi_pc' = "done"
  /\ UNCHANGED outside_basic
  /\ UNCHANGED <<progress_tracker, attempt, retry_delay, sent, current_time, ticks,
                 scheduled, stored>>

\* the event loop runs one queued safe_update_message: the edit goes through,
\* or raises FloodWait or another error (nothing is written), or raises
\* BadRequest "message not found" (the tracker is cancelled)
SafeUpdateMessage ==
  /\ LoopFree
  /\ scheduled > 0
  /\ scheduled' = scheduled - 1
  /\ \/ /\ ~status_msg.deleted
        /\ status_msg' = edit_text(status_msg, "progress")
        /\ UNCHANGED progress_tracker
     \/ UNCHANGED <<status_msg, progress_tracker>>
     \/ /\ status_msg.deleted
        /\ progress_tracker' = [progress_tracker EXCEPT !.is_cancelled = TRUE]
        /\ UNCHANGED status_msg
  /\ UNCHANGED outside_basic
  /\ UNCHANGED <<wasabi_pc, attempt, retry_delay, sent, current_time, ticks, stored>>

\* the user deletes the status message
DeleteStatusMsg ==
  /\ wasabi_pc # "done"
  /\ ~status_msg.deleted
  /\ status_msg' = [status_msg EXCEPT !.deleted = TRUE]
  /\ UNCHANGED outside_basic
  /\ UNCHANGED <<progress_tracker, wasabi_pc, attempt, retry_delay, sent, current_time,
                 ticks, scheduled, stored>>

\* a second passes while a transfer is running
TickBasic ==
  /\ wasabi_pc = "uploading"
  /\ ticks < MaxTicks
  /\ ticks' = ticks + 1
  /\ current_time' = current_time + 1
  /\ UNCHANGED outside_basic
  /\ UNCHANGED <<progress_tracker, wasabi_pc, attempt, retry_delay, sent, scheduled,
                 status_msg, stored>>

NextBasic ==
  \/ Callback
  \/ UploadOk
  \/ UploadFailRetry
  \/ RetrySleep
  \/ UploadFailLast
  \/ HandlerSuccess
  \/ SafeUpdateMessage
  \/ DeleteStatusMsg
  \/ TickBasic

SpecBasic == InitBasic /\ [][NextBasic]_vars

\* ===================================================================
\* The progress computations, as functions of their inputs: the percentage
\* of UploadProgress.update, of update_progress (the real-time variant) and
\* of the two update_progress_message reporters.
\* ===================================================================

\* totals and byte counts the computations are given
ProgressSizes == {0, 1, 1000, 2048, 4096, 8192}

\* seconds since the previous progress message
Elapsed == 0..2

PROGRESS_UPDATE_INTERVAL == 1

\* the integer part of (processed / total) * 100
percent(done, size) == (done * 100) \div size

Reported(p) == [called |-> TRUE, raised |-> "none", reported |-> TRUE, percentage |-> p]
NotReported == [called |-> TRUE, raised |-> "none", reported |-> FALSE, percentage |-> 0]
Raised(e) == [called |-> TRUE, raised |-> e, reported |-> FALSE, percentage |-> 0]

\* UploadProgress.update on a fresh tracker: the percentage of the progress
\* text it schedules, if it schedules one
update_percentage(bytes_amount, size, time) ==
  LET t == update(UploadProgress(size), bytes_amount, time) IN
  IF t.last_update_time = 0 THEN NotReported
  ELSE Reported(IF size > 0 THEN Min(100, percent(t.uploaded, size)) ELSE 0)

\* update_progress: returns early inside the interval, otherwise divides
\* processed by total with no guard
update_progress(done, size, since) ==
  IF since < PROGRESS_UPDATE_INTERVAL THEN NotReported
  ELSE IF size = 0 THEN Raised("ZeroDivisionError")
  ELSE Reported(percent(done, size))

\* update_progress_message, first pass of its loop (last_percentage = -1, so
\* the message is always edited)
update_progress_message(done, size) ==
  Reported(IF size > 0 THEN percent(done, size) ELSE 0)

InitProgress ==
  /\ RateOff
  /\ EntryOff
  /\ StagingOff
  /\ RealtimeOff
  /\ LayoutOff
  /\ UpdateOff
  /\ PoolOff
  /\ DownloadOff
  /\ MultipartOff
  /\ CounterOff
  /\ RetryOff
  /\ BasicOff
  /\ HandlerOff
  /\ total \in ProgressSizes
  /\ processed \in {n \in ProgressSizes : n <= total}
  /\ since_last_update \in Elapsed
  /\ outcome = NotCalled

\* UploadProgress.update(processed) on a new tracker of the given total
CallUpdate ==
  /\ ~outcome.called
  /\ outcome' = update_percentage(processed, total, 1000 + since_last_update)
  /\ UNCHANGED outside_progress
  /\ UNCHANGED <<processed, total, since_last_update>>

\* update_progress(..., processed, total, ...)
CallUpdateProgress ==
  /\ ~outcome.called
  /\ outcome' = update_progress(processed, total, since_last_update)
  /\ UNCHANGED outside_progress
  /\ UNCHANGED <<processed, total, since_last_update>>

\* update_progress_message reading {current: processed, total: total}
CallUpdateProgressMessage ==
  /\ ~outcome.called
  /\ outcome' = update_progress_message(processed, total)
  /\ UNCHANGED outside_progress
  /\ UNCHANGED <<processed, total, since_last_update>>

NextProgress ==
  \/ CallUpdate
  \/ CallUpdateProgress
  \/ CallUpdateProgressMessage

SpecProgress == InitProgress /\ [][NextProgress]_vars

\* ===================================================================
\* upload_file_handler of the three multipart bots from the moment it starts
\* the reporter task and awaits upload_file_to_wasabi, together with that
\* reporter (ultra_progress_reporter, update_progress_message).  The transfer
\* runs in the executor and is seen through the bytes it reports and the way
\* it ends.  One unit of time is a tenth of a second.
\* ===================================================================

MaxTime == 28
MaxReportsPerTick == 2

\* media.file_size of the handled message
HandlerSizes(v) ==
  CASE v = "ultra" -> {150 * MiB}
    [] v = "turbo" -> {12 * MiB}
    [] v = "progress" -> {50 * MiB + 1}

\* the clock when the reporter task is created
HandlerStartTimes == {1000}

\* asyncio.sleep at the end of every pass of the reporter's loop
poll_interval(v) ==
  CASE v = "ultra" -> 8
    [] v = "turbo" -> 1
    [] v = "progress" -> 5

\* the time after which the reporter edits whatever the percentage is
edit_interval(v) ==
  CASE v = "ultra" -> 15
    [] v = "turbo" -> 5
    [] v = "progress" -> 20

\* asyncio.sleep of the handler between the upload's return and its last edit
settle_delay(v) ==
  CASE v = "ultra" -> 1
    [] v = "turbo" -> 5
    [] v = "progress" -> 10

\* The byte count the reporter reads.  The ultra handler defines boto_callback
\* but passes it to nothing, so status['seen'] stays 0.
tracker_current(v, bytes) == IF v = "ultra" THEN 0 ELSE bytes

\* the reporter's initial last_percentage: -1, or status.get(..., 0)
initial_last_percentage(v) == IF v = "ultra" THEN 0 ELSE 0 - 1

\* the reporter's initial time of last edit: 0, or time.time()
initial_last_update(v, time) == IF v = "ultra" THEN 0 ELSE time

\* abs(percentage - last_percentage) >= k, percentages being bytes / size * 100
percentage_moved(cur, last, size, k) ==
  IF last < 0 THEN TRUE
  ELSE IF size = 0 THEN FALSE
  ELSE Abs(cur - last) >= CeilDiv(k * size, 100)

\* abs(percentage - last_percentage) > k
percentage_moved_over(cur, last, size, k) ==
  IF size = 0 THEN FALSE ELSE Abs(cur - last) > (k * size) \div 100

\* the condition under which a pass of the reporter's loop edits the message
should_edit(v, cur, size, last, since) ==
  CASE v = "ultra" -> since > edit_interval(v) \/ percentage_moved_over(cur, last, size, 2)
    [] v = "turbo" -> \/ since >= edit_interval(v)
                      \/ percentage_moved(cur, last, size, 1)
                      \/ (size > 0 /\ cur >= size)
    [] v = "progress" -> \/ percentage_moved(cur, last, size, 1)
                         \/ since >= edit_interval(v)
                         \/ (size > 0 /\ cur >= size)

\* "if current >= total and total > 0: break"
breaks_when_complete(v) == v \in {"turbo", "progress"}

\* after its loop the turbo reporter deletes the entry if it is still there
deletes_entry_after_loop(v) == v = "turbo"

\* after its loop the progress reporter writes "Upload Complete ... Processing
\* final details" if the entry is gone
writes_completion_note(v) == v = "progress"

\* the transfer's end removes the entry (finally clauses); the ultra handler
\* clears status['running'] only after upload_file_to_wasabi has returned
entry_after_return(v) == FALSE
entry_after_raise(v, e) == IF v = "ultra" THEN e ELSE FALSE

\* reporter_task.cancel() in the ultra handler's success path
cancels_reporter(v) == v = "ultra"

\* bytes of the next report: a part (turbo, ultra) or one piece of a part
next_report(v, fs, bytes) ==
  LET psz == part_size(v, fs)
      left == Min(psz - (bytes % psz), fs - bytes)
  IN IF v = "progress" THEN Min(SUB_CHUNK, left) ELSE left

InitHandler ==
  /\ RateOff
  /\ EntryOff
  /\ StagingOff
  /\ RealtimeOff
  /\ LayoutOff
  /\ UpdateOff
  /\ PoolOff
  /\ DownloadOff
  /\ MultipartOff
  /\ CounterOff
  /\ RetryOff
  /\ BasicOff
  /\ ProgressOff
  /\ h_variant \in Variants
  /\ h_size \in HandlerSizes(h_variant)
  /\ now \in HandlerStartTimes
  /\ handler_pc = "uploading"
  /\ handler_wake = 0
  /\ reporter_pc = "sleeping"
  /\ reporter_wake = now
  /\ reporter_started = now
  /\ entry = TRUE
  /\ transferred = 0
  /\ reports = 0
  /\ last_percentage = initial_last_percentage(h_variant)
  /\ last_update = initial_last_update(h_variant, now)
  /\ edits = 0
  /\ status_message = NewStatusMsg("uploading")

\* a transfer thread reports bytes
UploadReport ==
  /\ handler_pc = "uploading"
  /\ transferred < h_size
  /\ reports < MaxReportsPerTick
  /\ transferred' = transferred + next_report(h_variant, h_size, transferred)
  /\ reports' = reports + 1
  /\ UNCHANGED outside_handler
  /\ UNCHANGED <<h_variant, h_size, now, handler_pc, handler_wake, reporter_pc,
                 reporter_wake, reporter_started, entry, last_percentage, last_update,
                 edits, status_message>>

\* upload_file_to_wasabi returns; the handler goes to sleep before its last edit
UploadReturn ==
  /\ handler_pc = "uploading"
  /\ transferred = h_size
  /\ entry' = entry_after_return(h_variant)
  /\ handler_pc' = "settle"
  /\ handler_wake' = now + settle_delay(h_variant)
  /\ UNCHANGED outside_handler
  /\ UNCHANGED <<h_variant, h_size, now, reporter_pc, reporter_wake, reporter_started,
                 transferred, reports, last_percentage, last_update, edits,
                 status_message>>

\* upload_file_to_wasabi raises; the handler's except clause edits in the error
UploadRaise ==
  /\ handler_pc = "uploading"
  /\ entry' = entry_after_raise(h_variant, entry)
  /\ status_message' = edit_text(status_message, "error")
  /\ handler_pc' = "done"
  /\ UNCHANGED outside_handler
  /\ UNCHANGED <<h_variant, h_size, now, handler_wake, reporter_pc, reporter_wake,
                 reporter_started, transferred, reports, last_percentage, last_update,
                 edits>>

\* the handler's sleep ends: it cancels the reporter (ultra) and edits in the
\* success message
HandlerFinish ==
  /\ handler_pc = "settle"
  /\ handler_wake = now
  /\ reporter_pc' = IF cancels_reporter(h_variant) /\ reporter_pc = "sleeping"
                    THEN "cancelled" ELSE reporter_pc
  /\ status_message' = edit_text(status_message, "success")
  /\ handler_pc' = "done"
  /\ UNCHANGED outside_handler
  /\ UNCHANGED <<h_variant, h_size, now, handler_wake, reporter_wake, reporter_started,
                 entry, transferred, reports, last_percentage, last_update, edits>>

\* one pass of the reporter's loop, entered with the loop condition true
ReporterPoll ==
  /\ reporter_pc = "sleeping"
  /\ reporter_wake = now
  /\ entry
  /\ LET cur == tracker_current(h_variant, transferred)
         edit == should_edit(h_variant, cur, h_size, last_percentage, now - last_update)
         done == breaks_when_complete(h_variant) /\ cur >= h_size /\ h_size > 0
     IN /\ edits' = IF edit THEN edits + 1 ELSE edits
        /\ status_message' = IF edit THEN edit_text(status_message, "progress")
                             ELSE status_message
        /\ last_percentage' = IF edit THEN cur ELSE last_percentage
        /\ last_update' = IF edit THEN now ELSE last_update
        /\ reporter_pc' = IF done THEN "finished" ELSE "sleeping"
        /\ reporter_wake' = IF done THEN reporter_wake ELSE now + poll_interval(h_variant)
        /\ entry' = IF done /\ deletes_entry_after_loop(h_variant) THEN FALSE ELSE entry
  /\ UNCHANGED outside_handler
  /\ UNCHANGED <<h_variant, h_size, now, handler_pc, handler_wake, reporter_started,
                 transferred, reports>>

\* the reporter wakes to a false loop condition and leaves the loop
ReporterExit ==
  /\ reporter_pc = "sleeping"
  /\ reporter_wake = now
  /\ ~entry
  /\ reporter_pc' = "finished"
  /\ status_message' = IF writes_completion_note(h_variant)
                       THEN edit_text(status_message, "completion note")
                       ELSE status_message
  /\ UNCHANGED outside_handler
  /\ UNCHANGED <<h_variant, h_size, now, handler_pc, handler_wake, reporter_wake,
                 reporter_started, entry, transferred, reports, last_percentage,
                 last_update, edits>>

\* a tenth of a second passes; nothing that is due is left waiting
TickHandler ==
  /\ now - reporter_started < MaxTime
  /\ handler_pc # "done" \/ reporter_pc = "sleeping"
  /\ reporter_pc = "sleeping" => reporter_wake > now
  /\ handler_pc = "settle" => handler_wake > now
  /\ now' = now + 1
  /\ reports' = 0
  /\ UNCHANGED outside_handler
  /\ UNCHANGED <<h_variant, h_size, handler_pc, handler_wake, reporter_pc, reporter_wake,
                 reporter_started, entry, transferred, last_percentage, last_update,
                 edits, status_message>>

NextHandler ==
  \/ UploadReport
  \/ UploadReturn
  \/ UploadRaise
  \/ HandlerFinish
  \/ ReporterPoll
  \/ ReporterExit
  \/ TickHandler

SpecHandler == InitHandler /\ [][NextHandler]_vars

\* ===================================================================
\* The retry loop of one upload operation: upload_part, upload_part_turbo and
\* upload_part_with_progress called for one part of a multipart session, and
\* upload_to_wasabi called for one file.  Every sink call of the loop is a
\* step; waits are in tenths of a second.
\* ===================================================================

Operations ==
  {"upload_part", "upload_part_turbo", "upload_part_with_progress", "upload_file_part",
   "upload_to_wasabi"}

\* the bot an operation belongs to
variant_of(op) ==
  CASE op = "upload_part" -> "ultra"
    [] op = "upload_part_turbo" -> "turbo"
    [] op = "upload_part_with_progress" -> "progress"
    [] op = "upload_file_part" -> "realtime"
    [] op = "upload_to_wasabi" -> "basic"

\* errors the sink may answer with: worth retrying, or not (authentication,
\* permission denied, not found)
ErrorKinds == {"transient", "non_transient"}

\* sizes of the file the operation reads from
OperationSizes(op) ==
  IF op = "upload_to_wasabi" THEN {16 * 1024} ELSE FileSizes(variant_of(op))

\* part_number arguments the coordinator passes for a file of the given
\* size: 1-based, except for upload_file_part, which is given the index i
OperationParts(op, fs) ==
  CASE op = "upload_to_wasabi" -> {0}
    [] op = "upload_file_part" -> 0..(part_count(variant_of(op), fs) - 1)
    [] OTHER -> FaultTargets(part_count(variant_of(op), fs))

\* mutant: the index is sent as it is
sent_part_number_zero_based(op, arg) == arg

\* the PartNumber an operation sends to the sink for its part_number argument
sent_part_number(op, arg) == IF op = "upload_file_part" THEN arg + 1 ELSE arg

\* the ETag of whatever object is stored under the key, as head_object
\* returns it: no upload_part call of the session returns this value
ObjectETag == <<"object">>

\* the tag an operation puts in its result after its last upload_part call
\* returned tag: part['ETag'], or head_object(Bucket, Key)['ETag']
result_etag(op, tag) == IF op = "upload_file_part" THEN ObjectETag ELSE tag

\* range(max_retries) of the operation
op_max_retries(op) ==
  IF op = "upload_to_wasabi" THEN upload_max_retries ELSE max_retries(variant_of(op))

\* sink calls one attempt makes when nothing fails
op_calls_per_attempt(op, fs, p) ==
  IF op = "upload_to_wasabi" THEN 1 ELSE calls_per_attempt(variant_of(op), fs, p)

RECURSIVE Pow2(_)
Pow2(n) == IF n = 0 THEN 1 ELSE 2 * Pow2(n - 1)

\* mutant: the same wait after every failed attempt
backoff_constant(op, a) == 10

\* the wait after failed attempt a (counted from 0): time.sleep(2 ** attempt),
\* time.sleep(0.5 * (attempt + 1)), asyncio.sleep(retry_delay) with
\* retry_delay doubled after every wait
backoff(op, a) ==
  CASE op = "upload_part" -> 10 * Pow2(a)
    [] op = "upload_part_with_progress" -> 10 * Pow2(a)
    [] op = "upload_part_turbo" -> 5 * (a + 1)
    [] op = "upload_to_wasabi" -> 10 * initial_retry_delay * Pow2(a)

\* errors the except clause lets through to the caller at once
propagates_at_once(op, kind) == FALSE

\* the start_byte argument the coordinator passes along with part_number:
\* (part_number - 1) * CHUNK_SIZE, or i * part_size for upload_file_part
dispatched_start(op, fs, arg) ==
  IF op = "upload_file_part" THEN arg * part_size(variant_of(op), fs)
  ELSE start_byte(variant_of(op), fs, arg)

\* mutant: every coordinator passes an exclusive end
dispatched_end_exclusive(op, fs, arg) ==
  Min(dispatched_start(op, fs, arg) + part_size(variant_of(op), fs), fs)

\* the end_byte argument: min(start_byte + CHUNK_SIZE, file_size), or
\* min(start_byte + part_size - 1, file_size - 1) for upload_file_part
dispatched_end(op, fs, arg) ==
  IF op = "upload_file_part"
    THEN Min(dispatched_start(op, fs, arg) + part_size(variant_of(op), fs) - 1, fs - 1)
    ELSE Min(dispatched_start(op, fs, arg) + part_size(variant_of(op), fs), fs)

\* the length the worker asks f.read for: end_byte - start_byte, or
\* end_byte - start_byte + 1 in upload_file_part
read_length(op, first, last) ==
  IF op = "upload_file_part" THEN last - first + 1 ELSE last - first

\* the byte range of the k-th sink call of an attempt for part p
call_start(op, fs, p, k) ==
  IF op = "upload_to_wasabi" THEN 0
  ELSE dispatched_start(op, fs, p)
         + (IF op = "upload_part_with_progress" THEN (k - 1) * SUB_CHUNK ELSE 0)

call_end(op, fs, p, k) ==
  CASE op = "upload_to_wasabi" -> fs
    [] op = "upload_part_with_progress" ->
         Min(call_start(op, fs, p, k) + SUB_CHUNK, end_byte(variant_of(op), fs, p))
    [] op = "upload_file_part" ->
         dispatched_start(op, fs, p)
           + read_length(op, dispatched_start(op, fs, p), dispatched_end(op, fs, p))
    [] OTHER -> end_byte(variant_of(op), fs, p)

\* one sink call as the sink sees it
SinkCall(op, fs, p, a, k) ==
  [PartNumber |-> sent_part_number(op, p), first |-> call_start(op, fs, p, k),
   last |-> call_end(op, fs, p, k), ETag |-> ETagOf(sent_part_number(op, p), a, k)]

InitRetry ==
  /\ RateOff
  /\ EntryOff
  /\ StagingOff
  /\ RealtimeOff
  /\ LayoutOff
  /\ UpdateOff
  /\ PoolOff
  /\ DownloadOff
  /\ MultipartOff
  /\ CounterOff
  /\ BasicOff
  /\ ProgressOff
  /\ HandlerOff
  /\ operation \in Operations
  /\ op_file_size \in OperationSizes(operation)
  /\ part_number \in OperationParts(operation, op_file_size)
  /\ op_attempt = 0
  /\ op_piece = 0
  /\ op_pc = "try"
  /\ op_errors = <<>>
  /\ op_sleeps = <<>>
  /\ op_calls = <<>>
  /\ op_result = NoResult

\* the next sink call of the running attempt returns; after the last one the
\* operation returns part_number with part['ETag'] of the call just made
SinkCallOk ==
  /\ op_pc = "try"
  /\ LET k == op_piece + 1
         c == SinkCall(operation, op_file_size, part_number, op_attempt + 1, k)
         last_call == k = op_calls_per_attempt(operation, op_file_size, part_number)
     IN /\ op_calls' = Append(op_calls, c)
        /\ op_piece' = k
        /\ op_pc' = IF ~last_call THEN "try"
                    ELSE IF operation = "upload_file_part" THEN "head_object"
                    ELSE "returned"
        /\ op_result' = IF last_call /\ operation # "upload_file_part"
                        THEN PartResult(c.PartNumber, result_etag(operation, c.ETag))
                        ELSE op_result
  /\ UNCHANGED outside_retry
  /\ UNCHANGED <<operation, op_file_size, part_number, op_attempt, op_errors, op_sleeps>>

\* the next sink call raises: the except clause re-raises on the last attempt
\* and goes to sleep otherwise
SinkCallFail(kind) ==
  /\ op_pc = "try"
  /\ op_errors' = Append(op_errors, kind)
  /\ op_calls' = Append(op_calls,
       [SinkCall(operation, op_file_size, part_number, op_attempt + 1, op_piece + 1)
          EXCEPT !.ETag = <<>>])
  /\ op_pc' = IF \/ op_attempt = op_max_retries(operation) - 1
                 \/ propagates_at_once(operation, kind)
              THEN "raised" ELSE "sleep"
  /\ UNCHANGED outside_retry
  /\ UNCHANGED <<operation, op_file_size, part_number, op_attempt, op_piece, op_sleeps,
                 op_result>>

\* upload_file_part builds its result: head_object answers with the ETag of
\* the object stored under the key
HeadObjectOk ==
  /\ op_pc = "head_object"
  /\ op_result' = PartResult(sent_part_number(operation, part_number),
                             result_etag(operation, op_calls[Len(op_calls)].ETag))
  /\ op_pc' = "returned"
  /\ UNCHANGED outside_retry
  /\ UNCHANGED <<operation, op_file_size, part_number, op_attempt, op_piece, op_errors,
                 op_sleeps, op_calls>>

\* head_object raises (nothing is stored under the key yet): the exception
\* leaves upload_file_part
HeadObjectFail ==
  /\ op_pc = "head_object"
  /\ op_errors' = Append(op_errors, "non_transient")
  /\ op_pc' = "raised"
  /\ UNCHANGED outside_retry
  /\ UNCHANGED <<operation, op_file_size, part_number, op_attempt, op_piece, op_sleeps,
                 op_calls, op_result>>

\* upload_to_wasabi edits the retry notice into the status message before it
\* sleeps; the edit raising ends the call
RetryNoticeFails ==
  /\ op_pc = "sleep"
  /\ operation = "upload_to_wasabi"
  /\ op_pc' = "raised"
  /\ UNCHANGED outside_retry
  /\ UNCHANGED <<operation, op_file_size, part_number, op_attempt, op_piece, op_errors,
                 op_sleeps, op_calls, op_result>>

\* the back-off wait, then the next pass of the loop
BackoffSleep ==
  /\ op_pc = "sleep"
  /\ op_sleeps' = Append(op_sleeps, backoff(operation, op_attempt))
  /\ op_attempt' = op_attempt + 1
  /\ op_piece' = 0
  /\ op_pc' = "try"
  /\ UNCHANGED outside_retry
  /\ UNCHANGED <<operation, op_file_size, part_number, op_errors, op_calls, op_result>>

NextRetry ==
  \/ SinkCallOk
  \/ \E kind \in ErrorKinds : SinkCallFail(kind)
  \/ HeadObjectOk
  \/ HeadObjectFail
  \/ RetryNoticeFails
  \/ BackoffSleep

SpecRetry == InitRetry /\ [][NextRetry]_vars

\* ===================================================================
\* The shared progress counter under concurrent workers.  The statement
\* d[id]["current"] += n of a worker reads the counter, adds, and stores the
\* sum, with no lock around it; another worker may run between the read and
\* the store.  (Spec takes the whole statement as one step; here it is two.)
\* Every part succeeds on its first attempt.
\* ===================================================================

\* the bots whose workers update a counter
CounterVariants == {"turbo", "progress"}

\* file sizes offered
CounterSizes(v) ==
  CASE v = "turbo" -> {5 * MiB + 1, 12 * MiB}
    [] v = "progress" -> {50 * MiB + 1}

\* Parts whose worker is followed step by step.  The workers of the other
\* parts, which are alike, are taken together: they run to their end between
\* two steps of the followed ones, as the pool has a thread for each of them.
FineParts(n) == IF n > 4 THEN {1, 2} ELSE 1..n

\* bytes a worker adds after its k-th sink call for part p
increment(v, fs, p, k) ==
  IF v = "progress"
    THEN piece_bytes(end_byte(v, fs, p) - start_byte(v, fs, p), k)
           - piece_bytes(end_byte(v, fs, p) - start_byte(v, fs, p), k - 1)
    ELSE end_byte(v, fs, p) - start_byte(v, fs, p)

\* a lock held from the read to the store
holds_lock_for_increment(v) == FALSE

CounterParts == FineParts(part_count(c_variant, c_file_size))

\* bytes of the parts that are not followed step by step
RestBytes ==
  LET n == part_count(c_variant, c_file_size)
  IN IF n \in CounterParts THEN 0
     ELSE c_file_size - start_byte(c_variant, c_file_size, Cardinality(CounterParts) + 1)

Worker(phase, pieces, local) == [phase |-> phase, pieces |-> pieces, local |-> local]

InsideIncrement == {p \in CounterParts : workers[p].phase = "read"}
CounterRunning == {p \in CounterParts : workers[p].phase \in {"call", "read"}}
CounterQueued == {p \in CounterParts : workers[p].phase = "queued"}

CounterThreads ==
  Min(max_workers(c_variant, part_count(c_variant, c_file_size)), MaxThreads)

AllAdded == rest_added /\ \A p \in CounterParts : workers[p].phase = "done"

InitCounter ==
  /\ RateOff
  /\ EntryOff
  /\ StagingOff
  /\ RealtimeOff
  /\ LayoutOff
  /\ UpdateOff
  /\ PoolOff
  /\ DownloadOff
  /\ MultipartOff
  /\ BasicOff
  /\ ProgressOff
  /\ HandlerOff
  /\ RetryOff
  /\ c_variant \in CounterVariants
  /\ c_file_size \in CounterSizes(c_variant)
  /\ counter = 0
  /\ workers = [p \in CounterParts |-> Worker("queued", 0, 0)]
  /\ rest_added = (RestBytes = 0)

\* a pool thread takes the oldest queued part
CounterStart(p) ==
  /\ workers[p].phase = "queued"
  /\ \A q \in CounterQueued : p <= q
  /\ Cardinality(CounterRunning) < CounterThreads
  /\ workers' = [workers EXCEPT ![p].phase = "call"]
  /\ UNCHANGED outside_counter
  /\ UNCHANGED <<c_variant, c_file_size, counter, rest_added>>

\* the sink call of the next piece has returned; the worker reads the counter
CounterRead(p) ==
  /\ workers[p].phase = "call"
  /\ holds_lock_for_increment(c_variant) => InsideIncrement = {}
  /\ workers' = [workers EXCEPT ![p].phase = "read", ![p].local = counter]
  /\ UNCHANGED outside_counter
  /\ UNCHANGED <<c_variant, c_file_size, counter, rest_added>>

\* the worker stores what it read plus the bytes of the piece
CounterWrite(p) ==
  /\ workers[p].phase = "read"
  /\ LET k == workers[p].pieces + 1
     IN /\ counter' = workers[p].local + increment(c_variant, c_file_size, p, k)
        /\ workers' = [workers EXCEPT
             ![p] = Worker(IF k = calls_per_attempt(c_variant, c_file_size, p)
                             THEN "done" ELSE "call", k, 0)]
  /\ UNCHANGED outside_counter
  /\ UNCHANGED <<c_variant, c_file_size, rest_added>>

\* the workers of the other parts add their bytes
CounterAddRest ==
  /\ ~rest_added
  /\ holds_lock_for_increment(c_variant) => InsideIncrement = {}
  /\ counter' = counter + RestBytes
  /\ rest_added' = TRUE
  /\ UNCHANGED outside_counter
  /\ UNCHANGED <<c_variant, c_file_size, workers>>

NextCounter ==
  \/ \E p \in CounterParts : CounterStart(p)
  \/ \E p \in CounterParts : CounterRead(p)
  \/ \E p \in CounterParts : CounterWrite(p)
  \/ CounterAddRest

SpecCounter == InitCounter /\ [][NextCounter]_vars

\* ======================================================================
\* The download from Telegram: download_file_with_progress (18894c, "basic"),
\* download_with_progress (c20274, "turbo") and the message.download call of
\* upload_file_handler (ed84c8, "progress"), each with the handler's try
\* block around it.
\* ======================================================================

DownloadVariants == {"basic", "turbo", "progress"}

\* bytes the running call takes in between two points where it may fail:
\* the chunk_size of the stream_media loop, or a block of the library's
\* download behind download_media / message.download
stream_chunk(v) == IF v = "turbo" THEN 64 * 1024 ELSE MiB

DownloadSizes(v) ==
  IF v = "turbo" THEN {1, 64 * 1024, 3 * 64 * 1024 + 1, 5 * 64 * 1024}
  ELSE {1, MiB, 3 * MiB + 1, 5 * MiB}

\* the download function registers a progress_tracker entry
registers_entry(v) == v = "turbo"

\* the handler tests the returned path before it goes on
checks_returned_path(v) == v = "basic"

InitDownload ==
  /\ RateOff
  /\ EntryOff
  /\ StagingOff
  /\ RealtimeOff
  /\ LayoutOff
  /\ UpdateOff
  /\ PoolOff
  /\ MultipartOff
  /\ BasicOff
  /\ ProgressOff
  /\ HandlerOff
  /\ RetryOff
  /\ CounterOff
  /\ d_variant \in DownloadVariants
  /\ d_size \in DownloadSizes(d_variant)
  /\ d_pc = "downloading"
  /\ download_calls = 1
  /\ downloaded = 0
  /\ d_file = FALSE
  /\ d_entry = registers_entry(d_variant)
  /\ d_status = "starting"

\* the next chunk arrives and is written to the file
DownloadChunk ==
  /\ d_pc = "downloading"
  /\ downloaded < d_size
  /\ downloaded' = Min(downloaded + stream_chunk(d_variant), d_size)
  /\ d_file' = TRUE
  /\ UNCHANGED outside_download
  /\ UNCHANGED <<d_variant, d_size, d_pc, download_calls, d_entry, d_status>>

\* the stream ends; the function returns the path and the handler goes on to
\* the upload
DownloadReturn ==
  /\ d_pc = "downloading"
  /\ downloaded = d_size
  /\ d_pc' = "returned"
  /\ d_entry' = FALSE
  /\ d_status' = "uploading"
  /\ UNCHANGED outside_download
  /\ UNCHANGED <<d_variant, d_size, download_calls, downloaded, d_file>>

\* download_media returns no path; the handler that tests for it reports the
\* failure and returns
DownloadReturnsNothing ==
  /\ d_pc = "downloading"
  /\ checks_returned_path(d_variant)
  /\ d_pc' = "raised"
  /\ d_file' = FALSE
  /\ d_status' = "failed_to_download"
  /\ UNCHANGED outside_download
  /\ UNCHANGED <<d_variant, d_size, download_calls, downloaded, d_entry>>

\* a network error interrupts the call, which sits in no loop: the function
\* cleans up and re-raises, and the handler's except clause edits the error
\* into the status message
DownloadErrorSurfaces ==
  /\ d_pc = "downloading"
  /\ d_pc' = "raised"
  /\ d_file' = FALSE
  /\ d_entry' = FALSE
  /\ d_status' = "error"
  /\ UNCHANGED outside_download
  /\ UNCHANGED <<d_variant, d_size, download_calls, downloaded>>

NextDownload ==
  \/ DownloadChunk
  \/ DownloadReturn
  \/ DownloadReturnsNothing
  \/ DownloadErrorSurfaces

SpecDownload == InitDownload /\ [][NextDownload]_vars


\* ======================================================================
\* The executor of one multipart session by numbers: how many work items are
\* submitted, running, finished and cancelled.  The parts are not told apart
\* here, so that sessions with more parts than MAX_WORKERS can be followed.
\* ======================================================================

\* file sizes with fewer parts than MAX_WORKERS and with more
PoolSizes(v) ==
  CASE v = "ultra" -> {150 * MiB, 550 * MiB}
    [] v = "turbo" -> {12 * MiB, 510 * MiB}
    [] v = "progress" -> {50 * MiB + 1, 130 * MiB}

PoolParts == part_count(p_variant, p_file_size)

\* work items waiting in the executor's queue
pending == submitted - in_flight - finished - cancelled

InitPool ==
  /\ RateOff
  /\ EntryOff
  /\ StagingOff
  /\ RealtimeOff
  /\ LayoutOff
  /\ UpdateOff
  /\ MultipartOff
  /\ BasicOff
  /\ ProgressOff
  /\ HandlerOff
  /\ RetryOff
  /\ CounterOff
  /\ DownloadOff
  /\ p_variant \in Variants
  /\ p_file_size \in PoolSizes(p_variant)
  /\ submitted = 0
  /\ in_flight = 0
  /\ finished = 0
  /\ cancelled = 0
  /\ item_raised = FALSE
  /\ pool_pc = "submit"

\* executor.submit for the next part_number of the for loop
PoolSubmit ==
  /\ pool_pc = "submit"
  /\ submitted < PoolParts
  /\ submitted' = submitted + 1
  /\ UNCHANGED outside_pool
  /\ UNCHANGED <<p_variant, p_file_size, in_flight, finished, cancelled, item_raised,
                 pool_pc>>

\* the for loop is over; the coordinator waits in as_completed
PoolSubmitted ==
  /\ pool_pc = "submit"
  /\ submitted = PoolParts
  /\ pool_pc' = "collect"
  /\ UNCHANGED outside_pool
  /\ UNCHANGED <<p_variant, p_file_size, submitted, in_flight, finished, cancelled,
                 item_raised>>

\* a thread of the pool, which has at most max_workers of them, takes a
\* queued work item
PoolStart ==
  /\ pending > 0
  /\ in_flight < max_workers(p_variant, PoolParts)
  /\ in_flight' = in_flight + 1
  /\ UNCHANGED outside_pool
  /\ UNCHANGED <<p_variant, p_file_size, submitted, finished, cancelled, item_raised,
                 pool_pc>>

\* a running work item returns its dict
PoolItemReturns ==
  /\ in_flight > 0
  /\ in_flight' = in_flight - 1
  /\ finished' = finished + 1
  /\ UNCHANGED outside_pool
  /\ UNCHANGED <<p_variant, p_file_size, submitted, cancelled, item_raised, pool_pc>>

\* a running work item raises after its last attempt
PoolItemRaises ==
  /\ in_flight > 0
  /\ ~item_raised
  /\ in_flight' = in_flight - 1
  /\ finished' = finished + 1
  /\ item_raised' = TRUE
  /\ UNCHANGED outside_pool
  /\ UNCHANGED <<p_variant, p_file_size, submitted, cancelled, pool_pc>>

\* future.result() raises in the coordinator: the queued work items are
\* cancelled where the variant does so; the running ones go on
PoolShutdown ==
  /\ pool_pc = "collect"
  /\ item_raised
  /\ cancelled' = IF cancels_pending(p_variant) THEN cancelled + pending ELSE cancelled
  /\ pool_pc' = "shutdown"
  /\ UNCHANGED outside_pool
  /\ UNCHANGED <<p_variant, p_file_size, submitted, in_flight, finished, item_raised>>

NextPool ==
  \/ PoolSubmit
  \/ PoolSubmitted
  \/ PoolStart
  \/ PoolItemReturns
  \/ PoolItemRaises
  \/ PoolShutdown

SpecPool == InitPool /\ [][NextPool]_vars


\* ======================================================================
\* UploadProgress.update (18894c) as the transfer's threads call it: the test
\* of the flags before the lock, the wait for the lock, and the locked
\* section in two steps, the throttle test and, for a call that passes it,
\* the store of last_update_time with the scheduling of the edit.
\* ======================================================================

UpdateSizes == {16 * 1024, 40 * 1024}

TransferThreads == 1..MaxThreads

Caller(phase, amount, time) == [phase |-> phase, amount |-> amount, time |-> time]

\* mutant: the locked section is entered without waiting
lock_free_always(holder) == TRUE

\* "with self.lock" lets a thread in when no thread holds the lock
lock_free(holder) == holder = 0

\* the locked section up to the throttle test: "done" (completion), "throttled"
\* or "schedule"
throttle_test(t, bytes_amount, time) ==
  IF Abs(t.uploaded + bytes_amount - t.total_size) < 1024 THEN "done"
  ELSE IF time - t.last_update_time < 2 THEN "throttled"
  ELSE "schedule"

InitUpdate ==
  /\ RateOff
  /\ EntryOff
  /\ StagingOff
  /\ RealtimeOff
  /\ LayoutOff
  /\ MultipartOff
  /\ BasicOff
  /\ ProgressOff
  /\ HandlerOff
  /\ RetryOff
  /\ CounterOff
  /\ DownloadOff
  /\ PoolOff
  /\ \E size \in UpdateSizes : u_tracker = UploadProgress(size)
  /\ u_time \in StartTimes
  /\ u_ticks = 0
  /\ u_sent = 0
  /\ callers = [th \in TransferThreads |-> Caller("idle", 0, 0)]
  /\ lock_holder = 0
  /\ schedule_times = <<>>

\* a transfer thread calls update with its next block; the call returns at
\* once when a flag is set
UpdateCall(th) ==
  /\ callers[th].phase = "idle"
  /\ u_sent < u_tracker.total_size
  /\ LET amount == Min(CallbackBlock, u_tracker.total_size - u_sent)
     IN /\ u_sent' = u_sent + amount
        /\ callers' = IF u_tracker.is_cancelled \/ u_tracker.is_completed
                      THEN callers
                      ELSE [callers EXCEPT ![th] = Caller("lock", amount, 0)]
  /\ UNCHANGED outside_update
  /\ UNCHANGED <<u_tracker, u_time, u_ticks, lock_holder, schedule_times>>

\* the thread gets the lock
LockAcquire(th) ==
  /\ callers[th].phase = "lock"
  /\ lock_free(lock_holder)
  /\ lock_holder' = th
  /\ callers' = [callers EXCEPT ![th].phase = "locked"]
  /\ UNCHANGED outside_update
  /\ UNCHANGED <<u_tracker, u_time, u_ticks, u_sent, schedule_times>>

\* inside the lock: add the bytes, then return on completion or when the last
\* scheduled edit is less than 2 s back
LockedThrottleTest(th) ==
  /\ callers[th].phase = "locked"
  /\ LET r == throttle_test(u_tracker, callers[th].amount, u_time)
     IN /\ u_tracker' = [u_tracker EXCEPT
             !.uploaded = @ + callers[th].amount,
             !.is_completed = @ \/ r = "done"]
        /\ callers' = [callers EXCEPT ![th] =
             IF r = "schedule" THEN Caller("schedule", 0, u_time)
             ELSE Caller("idle", 0, 0)]
        /\ lock_holder' = IF r = "schedule" THEN lock_holder ELSE 0
  /\ UNCHANGED outside_update
  /\ UNCHANGED <<u_time, u_ticks, u_sent, schedule_times>>

\* still inside the lock: store current_time and schedule safe_update_message
LockedSchedule(th) ==
  /\ callers[th].phase = "schedule"
  /\ u_tracker' = [u_tracker EXCEPT !.last_update_time = callers[th].time]
  /\ schedule_times' = Append(schedule_times, callers[th].time)
  /\ callers' = [callers EXCEPT ![th] = Caller("idle", 0, 0)]
  /\ lock_holder' = 0
  /\ UNCHANGED outside_update
  /\ UNCHANGED <<u_time, u_ticks, u_sent>>

\* a second passes
TickUpdate ==
  /\ u_ticks < MaxTicks
  /\ u_ticks' = u_ticks + 1
  /\ u_time' = u_time + 1
  /\ UNCHANGED outside_update
  /\ UNCHANGED <<u_tracker, u_sent, callers, lock_holder, schedule_times>>

NextUpdate ==
  \/ \E th \in TransferThreads : UpdateCall(th)
  \/ \E th \in TransferThreads : LockAcquire(th)
  \/ \E th \in TransferThreads : LockedThrottleTest(th)
  \/ \E th \in TransferThreads : LockedSchedule(th)
  \/ TickUpdate

SpecUpdate == InitUpdate /\ [][NextUpdate]_vars


\* ======================================================================
\* The for loop of upload_multipart (1eae16), upload_multipart_turbo (c20274)
\* and upload_to_wasabi_with_progress (1eae16): the byte range each part is
\* dispatched with, and the bytes the worker reads for it.
\* ======================================================================

LayoutOperations == {"upload_part", "upload_part_turbo", "upload_file_part"}

\* file sizes around the places where the part size or the part count changes
LayoutSizes(op) ==
  CASE op = "upload_part" ->
         {1, 50 * MiB - 1, 50 * MiB, 50 * MiB + 1, 100 * MiB + 1, 150 * MiB, 550 * MiB}
    [] op = "upload_part_turbo" ->
         {1, 5 * MiB, 5 * MiB + 1, 12 * MiB, 300 * MiB, 300 * MiB + 49, 510 * MiB + 7}
    [] op = "upload_file_part" ->
         {16 * MiB, 16 * MiB + 1, 20 * MiB + 1, 24 * MiB - 1, 80 * MiB}

\* the part_number argument of the n-th pass of the for loop:
\* range(1, part_count + 1), or range(num_parts)
loop_argument(op, n) == IF op = "upload_file_part" THEN n - 1 ELSE n

\* the bytes f.seek(start_byte); f.read(length) yields from a file of fs bytes
bytes_read(fs, first, length) == Max(0, Min(length, fs - first))

LayoutParts == part_count(variant_of(l_operation), l_file_size)

InitLayout ==
  /\ RateOff
  /\ EntryOff
  /\ StagingOff
  /\ RealtimeOff
  /\ BasicOff
  /\ MultipartOff
  /\ ProgressOff
  /\ HandlerOff
  /\ RetryOff
  /\ CounterOff
  /\ DownloadOff
  /\ PoolOff
  /\ UpdateOff
  /\ l_operation \in LayoutOperations
  /\ l_file_size \in LayoutSizes(l_operation)
  /\ l_dispatched = 0
  /\ ranges = <<>>

\* one pass of the for loop: the part is dispatched and its worker reads
\* its bytes
LayoutDispatch ==
  /\ l_dispatched < LayoutParts
  /\ LET arg == loop_argument(l_operation, l_dispatched + 1)
         first == dispatched_start(l_operation, l_file_size, arg)
         last == dispatched_end(l_operation, l_file_size, arg)
     IN ranges' = Append(ranges,
          [PartNumber |-> sent_part_number(l_operation, arg),
           first |-> first,
           length |-> bytes_read(l_file_size, first,
                                 read_length(l_operation, first, last))])
  /\ l_dispatched' = l_dispatched + 1
  /\ UNCHANGED outside_layout
  /\ UNCHANGED <<l_operation, l_file_size>>

NextLayout == LayoutDispatch

SpecLayout == InitLayout /\ [][NextLayout]_vars


\* ======================================================================
\* upload_to_wasabi_with_progress (1eae16) as upload_file_handler calls it:
\* the single-request path for small files, and the multipart path whose
\* upload_file_part coroutines run as tasks of the event loop.
\* ======================================================================

RealtimeSizes == {MiB, 16 * MiB - 1, 16 * MiB, 20 * MiB + 1, 32 * MiB}

\* file_size < UPLOAD_CHUNK_SIZE * 2: s3_client.upload_file in one request
takes_simple_path(fs) == fs < CHUNK_SIZE("realtime") * 2

TaskIndexes == 1..part_count("realtime", t_file_size)

InitRealtime ==
  /\ RateOff
  /\ EntryOff
  /\ StagingOff
  /\ BasicOff
  /\ MultipartOff
  /\ ProgressOff
  /\ HandlerOff
  /\ RetryOff
  /\ CounterOff
  /\ DownloadOff
  /\ PoolOff
  /\ UpdateOff
  /\ LayoutOff
  /\ t_file_size \in RealtimeSizes
  /\ t_pc = "start"
  /\ t_session = "none"
  /\ tasks = <<>>
  /\ t_status = "uploading"

\* the small file is stored with one request and the function returns
SimpleUploadOk ==
  /\ t_pc = "start"
  /\ takes_simple_path(t_file_size)
  /\ t_pc' = "returned"
  /\ t_status' = "complete"
  /\ UNCHANGED outside_realtime
  /\ UNCHANGED <<t_file_size, t_session, tasks>>

\* create_multipart_upload answers; the coroutines of all parts are created
\* and handed to asyncio.as_completed
CreateSessionOk ==
  /\ t_pc = "start"
  /\ ~takes_simple_path(t_file_size)
  /\ t_session' = "open"
  /\ tasks' = [i \in TaskIndexes |-> "pending"]
  /\ t_pc' = "collect"
  /\ UNCHANGED outside_realtime
  /\ UNCHANGED <<t_file_size, t_status>>

\* upload_file or create_multipart_upload raises: the handler's except
\* clause edits the error into the status message
FirstRequestFails ==
  /\ t_pc = "start"
  /\ t_pc' = "raised"
  /\ t_status' = "error"
  /\ UNCHANGED outside_realtime
  /\ UNCHANGED <<t_file_size, t_session, tasks>>

\* a task sends its part and goes on to update_progress
TaskSendsPart(i) ==
  /\ tasks[i] = "pending"
  /\ tasks' = [tasks EXCEPT ![i] = "sent"]
  /\ UNCHANGED outside_realtime
  /\ UNCHANGED <<t_file_size, t_pc, t_session, t_status>>

\* s3_client.upload_part raises in a task
TaskUploadFails(i) ==
  /\ tasks[i] = "pending"
  /\ tasks' = [tasks EXCEPT ![i] = "failed"]
  /\ UNCHANGED outside_realtime
  /\ UNCHANGED <<t_file_size, t_pc, t_session, t_status>>

\* head_object answers and the task returns its dict
TaskReturns(i) ==
  /\ tasks[i] = "sent"
  /\ tasks' = [tasks EXCEPT ![i] = "returned"]
  /\ UNCHANGED outside_realtime
  /\ UNCHANGED <<t_file_size, t_pc, t_session, t_status>>

\* head_object raises in a task
TaskHeadObjectFails(i) ==
  /\ tasks[i] = "sent"
  /\ tasks' = [tasks EXCEPT ![i] = "failed"]
  /\ UNCHANGED outside_realtime
  /\ UNCHANGED <<t_file_size, t_pc, t_session, t_status>>

\* "part = await coro" raises the exception of a failed task: it leaves
\* upload_to_wasabi_with_progress, which has no except clause, and reaches
\* the handler's; the other tasks stay on the event loop
AwaitRaises ==
  /\ t_pc = "collect"
  /\ \E i \in DOMAIN tasks : tasks[i] = "failed"
  /\ t_pc' = "raised"
  /\ t_status' = "error"
  /\ UNCHANGED outside_realtime
  /\ UNCHANGED <<t_file_size, t_session, tasks>>

\* every task has returned: complete_multipart_upload answers
CompleteSessionOk ==
  /\ t_pc = "collect"
  /\ \A i \in DOMAIN tasks : tasks[i] = "returned"
  /\ t_session' = "completed"
  /\ t_pc' = "returned"
  /\ t_status' = "complete"
  /\ UNCHANGED outside_realtime
  /\ UNCHANGED <<t_file_size, tasks>>

\* complete_multipart_upload raises
CompleteSessionFails ==
  /\ t_pc = "collect"
  /\ \A i \in DOMAIN tasks : tasks[i] = "returned"
  /\ t_pc' = "raised"
  /\ t_status' = "error"
  /\ UNCHANGED outside_realtime
  /\ UNCHANGED <<t_file_size, t_session, tasks>>

NextRealtime ==
  \/ SimpleUploadOk
  \/ CreateSessionOk
  \/ FirstRequestFails
  \/ \E i \in DOMAIN tasks : TaskSendsPart(i)
  \/ \E i \in DOMAIN tasks : TaskUploadFails(i)
  \/ \E i \in DOMAIN tasks : TaskReturns(i)
  \/ \E i \in DOMAIN tasks : TaskHeadObjectFails(i)
  \/ AwaitRaises
  \/ CompleteSessionOk
  \/ CompleteSessionFails

SpecRealtime == InitRealtime /\ [][NextRealtime]_vars


\* ======================================================================
\* Handler runs going on at the same time (every message gets its own
\* handler task): where each stages its file, and its cleanup.
\* upload_file_handler of 1eae16 and ed84c8, download_with_progress of c20274.
\* ======================================================================

Transfers == 1..2
Users == {101, 102}
FileNames == {"a.bin", "b.bin"}

\* DOWNLOAD_DIR / file_name
staging_path(user, name) == name

path_of(t) == staging_path(s_user[t], s_name[t])

InitStaging ==
  /\ RateOff
  /\ EntryOff
  /\ BasicOff
  /\ MultipartOff
  /\ ProgressOff
  /\ HandlerOff
  /\ RetryOff
  /\ CounterOff
  /\ DownloadOff
  /\ PoolOff
  /\ UpdateOff
  /\ LayoutOff
  /\ RealtimeOff
  /\ s_user \in [Transfers -> Users]
  /\ s_name \in [Transfers -> FileNames]
  /\ s_phase = [t \in Transfers |-> "waiting"]
  /\ disk = [f \in FileNames |-> 0]

\* the download opens the staging file for writing
BeginDownload(t) ==
  /\ s_phase[t] = "waiting"
  /\ disk' = [disk EXCEPT ![path_of(t)] = t]
  /\ s_phase' = [s_phase EXCEPT ![t] = "downloading"]
  /\ UNCHANGED outside_staging
  /\ UNCHANGED <<s_user, s_name>>

\* the download returns the path and the upload begins to read the file
BeginUpload(t) ==
  /\ s_phase[t] = "downloading"
  /\ s_phase' = [s_phase EXCEPT ![t] = "uploading"]
  /\ UNCHANGED outside_staging
  /\ UNCHANGED <<s_user, s_name, disk>>

\* the download or the upload returns or raises: the handler goes to its
\* finally clause
EndTransfer(t) ==
  /\ s_phase[t] \in {"downloading", "uploading"}
  /\ s_phase' = [s_phase EXCEPT ![t] = "cleanup"]
  /\ UNCHANGED outside_staging
  /\ UNCHANGED <<s_user, s_name, disk>>

\* finally: if os.path.exists(file_path): os.remove(file_path)
Cleanup(t) ==
  /\ s_phase[t] = "cleanup"
  /\ disk' = [disk EXCEPT ![path_of(t)] = 0]
  /\ s_phase' = [s_phase EXCEPT ![t] = "done"]
  /\ UNCHANGED outside_staging
  /\ UNCHANGED <<s_user, s_name>>

NextStaging ==
  \/ \E t \in Transfers : BeginDownload(t)
  \/ \E t \in Transfers : BeginUpload(t)
  \/ \E t \in Transfers : EndTransfer(t)
  \/ \E t \in Transfers : Cleanup(t)

SpecStaging == InitStaging /\ [][NextStaging]_vars


\* ======================================================================
\* The entry a transfer puts into progress_tracker (c20274) or
\* upload_progress (ed84c8), and the three parties that touch it from two
\* threads: the part workers and the multipart function on executor threads,
\* update_progress_message on the event loop thread.  A test
\* "key in dict" and the access that follows it are two steps.
\* ======================================================================

EntryParts == 1..2

\* the entry is there when the multipart function starts: upload_file_to_wasabi
\* has stored it before it hands the function to the executor
InitEntry ==
  /\ RateOff
  /\ BasicOff
  /\ MultipartOff
  /\ ProgressOff
  /\ HandlerOff
  /\ RetryOff
  /\ CounterOff
  /\ DownloadOff
  /\ PoolOff
  /\ UpdateOff
  /\ LayoutOff
  /\ RealtimeOff
  /\ StagingOff
  /\ e_variant \in CounterVariants
  /\ in_dict = TRUE
  /\ e_current = 0
  /\ coordinator_pc = "collect"
  /\ e_failed = FALSE
  /\ part_pc = [p \in EntryParts |-> "running"]
  /\ poller_pc = "sleep"
  /\ key_errors = {}

\* a worker's sink call returns: "if progress_id in progress_tracker"
PartTestsKey(p) ==
  /\ part_pc[p] = "running"
  /\ part_pc' = [part_pc EXCEPT ![p] = IF in_dict THEN "add" ELSE "returned"]
  /\ UNCHANGED outside_entry
  /\ UNCHANGED <<e_variant, in_dict, e_current, coordinator_pc, e_failed, poller_pc,
                 key_errors>>

\* the worker adds its bytes to the entry and returns; on a removed entry the
\* KeyError is caught by the retry loop's except clause
PartAdds(p) ==
  /\ part_pc[p] = "add"
  /\ e_current' = IF in_dict THEN e_current + 1 ELSE e_current
  /\ part_pc' = [part_pc EXCEPT ![p] = IF in_dict THEN "returned" ELSE "running"]
  /\ UNCHANGED outside_entry
  /\ UNCHANGED <<e_variant, in_dict, coordinator_pc, e_failed, poller_pc, key_errors>>

\* a worker raises after its last attempt
PartRaises(p) ==
  /\ part_pc[p] = "running"
  /\ part_pc' = [part_pc EXCEPT ![p] = "raised"]
  /\ UNCHANGED outside_entry
  /\ UNCHANGED <<e_variant, in_dict, e_current, coordinator_pc, e_failed, poller_pc,
                 key_errors>>

\* the with-block is left, all workers joined; complete_multipart_upload or,
\* after a failure, the except clause has run: the finally clause tests the key
FinallyTestsKey ==
  /\ coordinator_pc = "collect"
  /\ \A p \in EntryParts : part_pc[p] \in {"returned", "raised"}
  /\ \E failed \in {TRUE, \E p \in EntryParts : part_pc[p] = "raised"} :
       /\ e_failed' = failed
       /\ coordinator_pc' = IF in_dict THEN "delete"
                            ELSE IF failed THEN "raised" ELSE "returned"
  /\ UNCHANGED outside_entry
  /\ UNCHANGED <<e_variant, in_dict, e_current, part_pc, poller_pc, key_errors>>

\* finally: del progress_tracker[progress_id]; a KeyError here takes the
\* place of the function's result
FinallyDeletes ==
  /\ coordinator_pc = "delete"
  /\ in_dict' = FALSE
  /\ key_errors' = IF in_dict THEN key_errors ELSE key_errors \cup {"coordinator"}
  /\ coordinator_pc' = IF e_failed \/ ~in_dict THEN "raised" ELSE "returned"
  /\ UNCHANGED outside_entry
  /\ UNCHANGED <<e_variant, e_current, e_failed, part_pc, poller_pc>>

\* update_progress_message wakes: "while progress_id in progress_tracker"
PollerTestsKey ==
  /\ poller_pc = "sleep"
  /\ poller_pc' = IF in_dict THEN "read" ELSE "after_loop"
  /\ UNCHANGED outside_entry
  /\ UNCHANGED <<e_variant, in_dict, e_current, coordinator_pc, e_failed, part_pc,
                 key_errors>>

\* the loop body reads the entry inside its try block: a KeyError ends the
\* loop, and so does "current >= total"
PollerReads ==
  /\ poller_pc = "read"
  /\ poller_pc' = IF ~in_dict \/ e_current >= Cardinality(EntryParts)
                  THEN "after_loop" ELSE "sleep"
  /\ UNCHANGED outside_entry
  /\ UNCHANGED <<e_variant, in_dict, e_current, coordinator_pc, e_failed, part_pc,
                 key_errors>>

\* after the loop: "if progress_id in progress_tracker" (c20274), or the
\* completion note (ed84c8), which does not touch the entry
PollerAfterLoop ==
  /\ poller_pc = "after_loop"
  /\ poller_pc' = IF deletes_entry_after_loop(e_variant) /\ in_dict
                  THEN "delete" ELSE "finished"
  /\ UNCHANGED outside_entry
  /\ UNCHANGED <<e_variant, in_dict, e_current, coordinator_pc, e_failed, part_pc,
                 key_errors>>

\* del progress_tracker[progress_id], outside any try block
PollerDeletes ==
  /\ poller_pc = "delete"
  /\ in_dict' = FALSE
  /\ key_errors' = IF in_dict THEN key_errors ELSE key_errors \cup {"reporter"}
  /\ poller_pc' = "finished"
  /\ UNCHANGED outside_entry
  /\ UNCHANGED <<e_variant, e_current, coordinator_pc, e_failed, part_pc>>

NextEntry ==
  \/ \E p \in EntryParts : PartTestsKey(p)
  \/ \E p \in EntryParts : PartAdds(p)
  \/ \E p \in EntryParts : PartRaises(p)
  \/ FinallyTestsKey
  \/ FinallyDeletes
  \/ PollerTestsKey
  \/ PollerReads
  \/ PollerAfterLoop
  \/ PollerDeletes

SpecEntry == InitEntry /\ [][NextEntry]_vars


\* ======================================================================
\* check_rate_limit.  The function has no await inside, so one call is one
\* step of the event loop.  The clock is taken as non-decreasing.
\* ======================================================================

MAX_REQUESTS_PER_MINUTE == 30

MaxNow == 60

RateUsers == {101}

\* the clock moves between calls by half a window or by a whole one
RateSteps == {30, 60}

\* "current_time - t < 60"
within_window(clock, t) == clock - t < 60

at_limit_strict(n) == n > MAX_REQUESTS_PER_MINUTE

\* "len(user_limits[user_id]) >= MAX_REQUESTS_PER_MINUTE"
at_limit(n) == n >= MAX_REQUESTS_PER_MINUTE

\* "[t for t in user_limits[user_id] if current_time - t < 60]"
RECURSIVE kept(_, _)
kept(clock, stamps) ==
  IF stamps = <<>> THEN <<>>
  ELSE IF within_window(clock, Head(stamps))
       THEN <<Head(stamps)>> \o kept(clock, Tail(stamps))
       ELSE kept(clock, Tail(stamps))

\* calls of the user that returned True with a timestamp in from..to
RECURSIVE count_in(_, _)
count_in(history, stamps) ==
  IF stamps = {} THEN 0
  ELSE LET t == CHOOSE s \in stamps : TRUE
       IN history[t] + count_in(history, stamps \ {t})

AcceptedBetween(history, from, to) ==
  count_in(history, {t \in DOMAIN history : from <= t /\ t <= to})

InitRate ==
  /\ BasicOff
  /\ MultipartOff
  /\ ProgressOff
  /\ HandlerOff
  /\ RetryOff
  /\ CounterOff
  /\ DownloadOff
  /\ PoolOff
  /\ UpdateOff
  /\ LayoutOff
  /\ RealtimeOff
  /\ StagingOff
  /\ EntryOff
  /\ r_now = 0
  /\ user_limits = <<>>
  /\ accepted = [u \in RateUsers |-> <<>>]
  /\ r_result = [u \in RateUsers |-> "none"]

ClockAdvances ==
  /\ \E step \in RateSteps :
       /\ r_now + step <= MaxNow
       /\ r_now' = r_now + step
  /\ r_result' = [u \in RateUsers |-> "none"]
  /\ UNCHANGED outside_rate
  /\ UNCHANGED <<user_limits, accepted>>

check_rate_limit(user_id) ==
  LET stamps == IF user_id \in DOMAIN user_limits THEN user_limits[user_id] ELSE <<>>
      recent == kept(r_now, stamps)
      count  == IF r_now \in DOMAIN accepted[user_id] THEN accepted[user_id][r_now] ELSE 0
  IN  /\ IF at_limit(Len(recent))
         THEN /\ user_limits' = [u \in DOMAIN user_limits \cup {user_id} |->
                                   IF u = user_id THEN recent ELSE user_limits[u]]
              /\ r_result' = [r_result EXCEPT ![user_id] = "False"]
              /\ UNCHANGED accepted
         ELSE /\ user_limits' = [u \in DOMAIN user_limits \cup {user_id} |->
                                   IF u = user_id THEN Append(recent, r_now)
                                   ELSE user_limits[u]]
              /\ r_result' = [r_result EXCEPT ![user_id] = "True"]
              /\ accepted' = [accepted EXCEPT ![user_id] =
                                [t \in DOMAIN accepted[user_id] \cup {r_now} |->
                                   IF t = r_now THEN count + 1 ELSE accepted[user_id][t]]]
      /\ UNCHANGED outside_rate
      /\ UNCHANGED r_now

NextRate ==
  \/ ClockAdvances
  \/ \E user_id \in RateUsers : check_rate_limit(user_id)

SpecRate == InitRate /\ [][NextRate]_vars


\* ===================================================== multipart claims

Succeeded(p) == status[p] \in {"done", "collected"}
Exhausted(p) == status[p] \in {"failed", "raised"}
\* attempts of part p that raised
FailedAttempts(p) == attempts[p] - (IF Succeeded(p) THEN 1 ELSE 0)

\* C1: whenever complete_multipart_upload has been invoked, its Parts list has
\* exactly one entry for each part number 1..N, in ascending order, with
\* N = ceil(file_size / part_size): position i holds part number i, and the
\* length n is the least n with n * part_size >= file_size.
C1_PartsExactlyOneToN ==
  complete_calls > 0 =>
    LET n == Len(final_parts)
        ps == part_size(variant, file_size)
    IN /\ n * ps >= file_size
       /\ (n - 1) * ps < file_size
       /\ \A i \in 1..n : final_parts[i].PartNumber = i

\* C1 witness: a completed session of at least three parts whose last part is
\* short, so that the ceiling matters
C1_Witness ==
  /\ complete_calls > 0
  /\ Len(final_parts) >= 3
  /\ file_size % part_size(variant, file_size) # 0

\* C2: once some part has exhausted its retries, complete_multipart_upload is
\* never called, abort_multipart_upload is called at most once, and when the
\* multipart function has ended it was called exactly once and exactly one
\* exception has propagated.
C2_PartFailureAborts ==
  (\E p \in PartNumbers : Exhausted(p)) =>
    /\ complete_calls = 0
    /\ abort_calls <= 1
    /\ raised <= 1
    /\ pc = "done" => (abort_calls = 1 /\ raised = 1 /\ session # "completed")

\* C2 witness: the function has ended after a part ran out of retries while
\* other parts had succeeded
C2_Witness ==
  /\ pc = "done"
  /\ \E p \in PartNumbers : Exhausted(p)
  /\ \E q \in PartNumbers : Succeeded(q)

\* C4: in the list handed to complete_multipart_upload every part number has
\* exactly one entry, whatever number of its attempts failed before, and the
\* entry carries the tag returned by the part's last (successful) attempt.
C4_RetryAddsOneEntry ==
  complete_calls > 0 =>
    \A p \in PartNumbers :
      /\ Cardinality({i \in 1..Len(final_parts) : final_parts[i].PartNumber = p}) = 1
      /\ \A i \in 1..Len(final_parts) :
           final_parts[i].PartNumber = p =>
             final_parts[i].ETag =
               ETagOf(p, attempts[p], calls_per_attempt(variant, file_size, p))

\* C4 witness: the list was handed over and some part had needed a retry
C4_Witness ==
  /\ complete_calls > 0
  /\ \E p \in PartNumbers : FailedAttempts(p) >= 1

\* the scenario of C8: exactly one part had two failed attempts, no other
\* upload_part call failed, and neither create nor complete failed
TwoFailuresOnOnePart(p) ==
  /\ FailedAttempts(p) = 2
  /\ \A q \in PartNumbers \ {p} : FailedAttempts(q) = 0
  /\ faults = 2
  /\ error \notin {"create", "complete"}

\* C8 (as claimed): when the first two attempts of one part fail and nothing
\* else does, the transfer ends Completed (complete called, abort not) after
\* exactly 2 retries of that part -- in every variant.
C8_Original ==
  \A p \in PartNumbers :
    (pc = "done" /\ TwoFailuresOnOnePart(p)) =>
      /\ session = "completed"
      /\ complete_calls = 1
      /\ abort_calls = 0
      /\ attempts[p] = 3

\* C8 (amended): that holds where max_retries is 3 (upload_part,
\* upload_part_with_progress); in upload_part_turbo (max_retries = 2) the second
\* failure exhausts the part: complete is not called, abort is called once, one
\* exception propagates and exactly 1 retry was made.
C8_Amended ==
  \A p \in PartNumbers :
    (pc = "done" /\ TwoFailuresOnOnePart(p)) =>
      IF variant = "turbo"
        THEN /\ complete_calls = 0
             /\ abort_calls = 1
             /\ raised = 1
             /\ attempts[p] = 2
        ELSE /\ session = "completed"
             /\ complete_calls = 1
             /\ abort_calls = 0
             /\ attempts[p] = 3

\* C8 witness: a three-attempt variant completed after one part failed twice
C8_Witness ==
  /\ pc = "done"
  /\ variant # "turbo"
  /\ session = "completed"
  /\ \E p \in PartNumbers : TwoFailuresOnOnePart(p) /\ attempts[p] = 3

\* C9: when create_multipart_upload fails, no upload_part call is made, and
\* neither abort_multipart_upload nor complete_multipart_upload is called; the
\* failure propagates as the one exception.
C9_CreateFailureIsDirect ==
  error = "create" =>
    /\ upload_part_calls = 0
    /\ \A p \in PartNumbers : attempts[p] = 0 /\ status[p] = "new"
    /\ abort_calls = 0
    /\ complete_calls = 0
    /\ pc = "done" => raised = 1

\* C9 witness: the multipart function has ended on a failed create
C9_Witness == pc = "done" /\ error = "create" /\ raised = 1

\* C3: the uploaded-bytes counter of a transfer never decreases and never
\* exceeds the transfer's total size, retried attempts included.
C3_CounterMonotoneBounded ==
  [][/\ progress_tracker'.uploaded >= progress_tracker.uploaded
     /\ progress_tracker'.uploaded <= progress_tracker'.total_size]_vars

\* C6: once cancellation has been requested (is_cancelled is set) before the
\* transfer has finished, the upload ends aborted: the object is never
\* stored, the sink's abort is invoked and no success is reported.
\* (abort_calls counts abort_multipart_upload invocations; the single-request
\* bot contains none, and nothing in it reads is_cancelled but update.)
C6_CancelAborts ==
  (wasabi_pc = "done" /\ progress_tracker.is_cancelled)
    => (~stored /\ abort_calls > 0 /\ status_msg.text # "success")

\* C7: for a transfer whose total size is 0, every progress computation
\* completes without a division error and reports 100%.
C7_ZeroTotalReportsHundred ==
  (total = 0 /\ outcome.called)
    => (outcome.raised = "none" /\ (outcome.reported => outcome.percentage = 100))

\* C5: over a transfer that has lasted D with bytes being reported, the
\* polling reporter has issued at most floor(D / T) + 2 edits, T being the
\* reporter's update interval.
C5_EditsWithinRate ==
  handler_pc = "uploading"
    => edits <= ((now - reporter_started) \div edit_interval(h_variant)) + 2

\* C10: a handler run writes exactly one terminal notification to the status
\* message, and nothing is written to the message after it.
C10_OneTerminalAndNothingAfter ==
  /\ handler_pc = "done" => status_message.terminals = 1
  /\ ~status_message.edited_after_terminal

\* C11: when abort_multipart_upload itself raises while cleaning up after a
\* failed part upload, the exception that reaches the caller still reports the
\* part-upload failure, not the abort failure.
C11_AbortFailureNotMasking ==
  (pc = "done" /\ abort_failed /\ error = "part") => reported_error = "part"

\* C12: a part upload that fails with a non-transient error propagates it
\* after exactly one attempt, with no retry and no back-off sleep.
C12_NonTransientNotRetried ==
  (operation # "upload_to_wasabi" /\ op_errors # <<>> /\ op_errors[1] = "non_transient")
    => (op_pc = "raised" /\ Len(op_errors) = 1 /\ op_sleeps = <<>>)

\* C13: a retried upload operation makes at most 3 attempts; the wait before
\* its k-th retry is the first wait times 2^(k-1); one wait precedes every
\* retry and none follows the last failed attempt, after which the error is
\* raised.
C13_BoundedDoublingBackoff ==
  /\ op_attempt + 1 <= 3
  /\ Len(op_sleeps) = op_attempt
  /\ \A k \in 1..Len(op_sleeps) : op_sleeps[k] = op_sleeps[1] * Pow2(k - 1)
  /\ Len(op_errors) = op_max_retries(operation) => op_pc = "raised"
  /\ op_pc = "raised" => Len(op_sleeps) = Len(op_errors) - 1

\* C13 witness: an operation that failed three times, waited twice, the second
\* wait twice the first, and raised
C13_Witness ==
  /\ op_pc = "raised"
  /\ Len(op_errors) = 3
  /\ Len(op_sleeps) = 2
  /\ op_sleeps[2] = 2 * op_sleeps[1]

\* C14: the tag an operation records for part k is the ETag that one of its
\* upload_part calls for part number k returned, never a value obtained from
\* another call, another part or another object.
C14_TagComesFromThePartsCall ==
  (op_pc = "returned" /\ operation # "upload_to_wasabi")
    => \E i \in 1..Len(op_calls) :
         /\ op_calls[i].PartNumber = op_result.PartNumber
         /\ op_calls[i].ETag = op_result.ETag

\* C15: the progress counter shared by the workers is incremented atomically:
\* it never moves backwards, and once every part has succeeded on its first
\* attempt it equals the file size.
C15_CounterIncrementAtomic ==
  [][/\ counter' >= counter
     /\ AllAdded' => counter' = c_file_size]_vars


\* C16: in the ultra handler, whenever upload_file_to_wasabi has returned
\* successfully, the progress state read by ultra_progress_reporter
\* (status['seen']) equals the file size, and is positive for a non-empty file.
C16_SeenEqualsSizeOnReturn ==
  (h_variant = "ultra" /\ handler_pc = "settle")
    => /\ tracker_current(h_variant, transferred) = h_size
       /\ h_size > 0 => tracker_current(h_variant, transferred) > 0

\* C17: a network error during the download from Telegram is retried at the
\* level of the whole transfer at least once: the failure reaches the user
\* only after a bounded number (two or more) of download calls.
C17_DownloadRetriedBeforeSurfacing ==
  d_status = "error" => download_calls >= 2

C19_InFlightWithinPool ==
  pool_pc # "off" => in_flight <= Min(PoolParts, MAX_WORKERS(p_variant))

\* the pool is full while work items are still queued
C19_Witness ==
  /\ PoolParts > MAX_WORKERS(p_variant)
  /\ in_flight = MAX_WORKERS(p_variant)
  /\ pending > 0

\* C20: for one UploadProgress instance, under any interleaving of the
\* threads that call update(), two edits scheduled by update() are at least
\* 2 seconds apart, by the time.time() each scheduling call read.
C20_ScheduledEditsTwoSecondsApart ==
  \A i \in 1..Len(schedule_times) : \A j \in 1..Len(schedule_times) :
    i < j => schedule_times[j] - schedule_times[i] >= 2

\* a second edit is scheduled while another thread waits for the lock
C20_Witness ==
  /\ Len(schedule_times) = 2
  /\ \E th \in TransferThreads : callers[th].phase = "lock"

\* C21: for every file_size > 0 the byte ranges of parts 1..N are non-empty,
\* at most part_size long, contiguous in part-number order from byte 0 and,
\* once all N are dispatched, end at file_size; for the half-open ranges of
\* upload_multipart / upload_multipart_turbo and the inclusive ones of
\* upload_to_wasabi_with_progress alike.
C21_RangesTileTheFile ==
  /\ \A i \in 1..Len(ranges) :
       /\ ranges[i].PartNumber = i
       /\ ranges[i].length > 0
       /\ ranges[i].length <= part_size(variant_of(l_operation), l_file_size)
       /\ ranges[i].first = (IF i = 1 THEN 0 ELSE ranges[i - 1].first + ranges[i - 1].length)
  /\ (l_operation # "none" /\ l_dispatched = LayoutParts)
       => /\ Len(ranges) = CeilDiv(l_file_size, part_size(variant_of(l_operation), l_file_size))
          /\ ranges[Len(ranges)].first + ranges[Len(ranges)].length = l_file_size

\* the inclusive-end loop has dispatched all its parts, the last a short one
C21_Witness ==
  /\ l_operation = "upload_file_part"
  /\ l_dispatched = LayoutParts
  /\ Len(ranges) = 3
  /\ ranges[3].length < ranges[2].length

\* C22: in upload_to_wasabi_with_progress every session opened with
\* create_multipart_upload is closed: once the function has returned or
\* raised, the session is completed or, after a failure, aborted.
C22_SessionClosedOnExit ==
  (t_pc \in {"returned", "raised"} /\ t_session # "none")
    => t_session \in {"completed", "aborted"}

\* C23: once the coordinator has seen a failed part (future.result() raised),
\* no part upload that is still queued is started afterwards.
C23_NoStartAfterObservedFailure ==
  [][error = "part"
       => \A p \in PartNumbers : status[p] = "queued" => status'[p] # "running"]_vars

\* What the sink holds under part number pn after the calls made so far: the
\* body of the last upload_part call that succeeded with that number (a call
\* with a part number already used replaces what was stored under it).
StoredUnder(calls, pn) ==
  LET ok == {i \in 1..Len(calls) : calls[i].PartNumber = pn /\ calls[i].ETag # <<>>}
  IN IF ok = {} THEN [first |-> 0, last |-> 0]
     ELSE LET i == CHOOSE i \in ok : \A j \in ok : j <= i
          IN [first |-> calls[i].first, last |-> calls[i].last]

\* C24: when upload_part_with_progress has returned for part k, the sink
\* holds under part number k the whole range [(k-1)*part_size,
\* min(k*part_size, file_size)) of the file: sending the part in 2 MB pieces
\* never makes a later call replace bytes of the part sent earlier.
C24_StoredPartIsWholeRange ==
  (operation = "upload_part_with_progress" /\ op_pc = "returned")
    => StoredUnder(op_calls, part_number)
         = [first |-> start_byte("progress", op_file_size, part_number),
            last |-> end_byte("progress", op_file_size, part_number)]

\* C25: in the ultra handler the reporter task ends in every execution,
\* whether upload_file_to_wasabi returns or raises: once the handler has
\* written its final message the reporter is no longer waiting for its next
\* pass, and it has not edited the status message after that message.
C25_ReporterEndsWithHandler ==
  (h_variant = "ultra" /\ handler_pc = "done")
    => /\ reporter_pc # "sleeping"
       /\ ~status_message.edited_after_terminal

\* C26: in the progress bot (ed84c8), when upload_file_to_wasabi has raised
\* and the handler has written its error message, update_progress_message
\* does not write its 'Upload Complete' note: the error message stays the
\* content of the status message.
C26_ErrorMessageStaysLast ==
  [][(h_variant = "progress" /\ handler_pc = "done" /\ status_message.text = "error")
       => status_message'.text = "error"]_vars

\* C27: while a transfer is staging or uploading its local file, no other
\* transfer running at the same time overwrites or deletes that file: the
\* file exists and holds the transfer's own bytes until its own cleanup.
C27_StagingFileIsOwn ==
  \A t \in DOMAIN s_phase :
    s_phase[t] \in {"downloading", "uploading", "cleanup"} => disk[path_of(t)] = t

\* C28: abort_multipart_upload is never called for a session while a part
\* upload of that session is still in flight: after a part has failed the
\* coordinator waits for every running worker before it calls abort.
C28_NoAbortWhileInFlight ==
  [][abort_calls' > abort_calls => Running = {}]_vars

\* a session is aborted after a part failed while another part was running
\* when the failure was seen
C28_Witness ==
  /\ abort_calls = 1
  /\ error = "part"
  /\ \E p \in PartNumbers : attempts[p] > 0 /\ status[p] \in {"done", "failed"}

\* C29: an entry put into the progress dictionary for a transfer is absent
\* once the transfer's call has returned or raised, under every interleaving
\* of the worker threads and the reporter task, and no access of a worker, of
\* the multipart function or of the reporter to a removed entry raises.
C29_EntryRemovedAndNoKeyError ==
  /\ coordinator_pc \in {"returned", "raised"} => ~in_dict
  /\ key_errors = {}

\* C30: for each user, the calls of check_rate_limit that returned True with
\* timestamps inside any window of 60 seconds are never more than
\* MAX_REQUESTS_PER_MINUTE; a call that returns False records no timestamp;
\* and a call of a user with fewer than MAX_REQUESTS_PER_MINUTE accepted
\* requests in the last 60 seconds returns True.
C30_AtMostThirtyPerMinute ==
  [][\A u \in RateUsers :
       /\ \A a \in 0..r_now' :
            AcceptedBetween(accepted'[u], a, a + 59) <= MAX_REQUESTS_PER_MINUTE
       /\ (r_now' = r_now /\ r_result'[u] = "False") =>
            /\ accepted'[u] = accepted[u]
            /\ u \in DOMAIN user_limits => Len(user_limits'[u]) <= Len(user_limits[u])
            /\ u \notin DOMAIN user_limits => user_limits'[u] = <<>>
       /\ (/\ r_now' = r_now
           /\ r_result'[u] # r_result[u] \/ accepted'[u] # accepted[u]
           /\ AcceptedBetween(accepted[u], r_now - 59, r_now) < MAX_REQUESTS_PER_MINUTE)
          => /\ r_result'[u] = "True"
             /\ AcceptedBetween(accepted'[u], r_now, r_now)
                  = AcceptedBetween(accepted[u], r_now, r_now) + 1]_vars

\* the user was at the limit and was turned away, then the oldest timestamps
\* left the window and the user is accepted again
C30_Witness ==
  \E u \in RateUsers :
    /\ r_result[u] = "True"
    /\ r_now >= 60
    /\ AcceptedBetween(accepted[u], 0, 0) = MAX_REQUESTS_PER_MINUTE
    /\ AcceptedBetween(accepted[u], r_now - 59, r_now) = MAX_REQUESTS_PER_MINUTE
    /\ AcceptedBetween(accepted[u], 0, r_now) > MAX_REQUESTS_PER_MINUTE

====
